---- MODULE Spec2Model ----
(***************************************************************************)
(* Model of the numeric core of src/calculadora.py:                        *)
(*   amortization_schedule, mixed_total_interest and                       *)
(*   solve_r2_for_equal_interest.                                          *)
(*                                                                         *)
(* Python floats are IEEE-754 binary floating point numbers rounded to     *)
(* nearest, ties to even, after every arithmetic operation.  The model     *)
(* keeps that arithmetic and scales the significand down from 53 bits to   *)
(* Prec bits: a float is a record [m |-> significand, e |-> exponent]      *)
(* standing for m * 2^e, with 2^(Prec-1) <= |m| < 2^Prec, or m = 0.        *)
(* The exponent is unbounded: the inputs enumerated stay far away from     *)
(* the overflow and underflow limits of the binary64 format.               *)
(*                                                                         *)
(* Every function is a small machine: a call action runs the code up to    *)
(* its first loop, every pass of a loop is a step, and the function ends   *)
(* in "done" (ret holds what it returned) or in "raised" (ret holds the    *)
(* exception).  The same step operators, run to the end, give the value of *)
(* a call made from inside another function.                               *)
(***************************************************************************)
EXTENDS Integers, Sequences, FiniteSets, TLC

\* ---------------------------------------------------------------- bounds
\* Bits of the significand of a float (53 in binary64).
Prec == 7
\* Extra bits carried inside pow() before its result is rounded.
GuardBits == 6
\* Longest term, in months, of the loans enumerated.
MaxN == 5

\* ------------------------------------------------- floating point numbers
RECURSIVE BitLen(_)
\* Number of binary digits of the natural number k.
BitLen(k) == IF k = 0 THEN 0 ELSE 1 + BitLen(k \div 2)

\* Absolute value of an integer.
IAbs(k) == IF k < 0 THEN -k ELSE k

\* Sign of an integer.
ISign(k) == IF k < 0 THEN -1 ELSE 1

FZero == [m |-> 0, e |-> 0]

\* s * q * 2^x for a significand q that rounding may have carried to 2^p.
RoundCarry(p, s, q, x) ==
    IF q = 2^p THEN [m |-> s * 2^(p - 1), e |-> x + 1]
    ELSE [m |-> s * q, e |-> x]

\* Drops the d low bits rem of a significand, q being the bits kept: to
\* nearest, ties to even.
RoundCut(p, s, q, rem, d, x) ==
    RoundCarry(p, s,
               IF rem > 2^(d - 1) \/ (rem = 2^(d - 1) /\ q % 2 = 1)
               THEN q + 1 ELSE q,
               x + d)

\* s * a * 2^x for a natural a > 0 of L bits, rounded to p bits.
RoundBits(p, s, a, L, x) ==
    IF L <= p THEN [m |-> s * a * 2^(p - L), e |-> x - (p - L)]
    ELSE RoundCut(p, s, a \div 2^(L - p), a % 2^(L - p), L - p, x)

\* k * 2^x rounded to p significant bits, to nearest, ties to even.
RoundTo(p, k, x) ==
    IF k = 0 THEN FZero
    ELSE RoundBits(p, ISign(k), IAbs(k), BitLen(IAbs(k)), x)

\* The float nearest to k * 2^x.
FNorm(k, x) == RoundTo(Prec, k, x)

\* int -> float conversion.
FFromInt(k) == FNorm(k, 0)

FOne == FFromInt(1)

\* --------------------------------------------------- binary64 arithmetic
\* The integers of TLC have 32 bits.  Where a claim is about the digits of
\* a result, floats carry the 53-bit significand of binary64: a natural is
\* a sequence of limbs, the lowest first, without leading zero limbs (<<>>
\* is 0), and a binary64 float other than 0 is [s, m, e] for s * m * 2^e
\* with the sign s and the natural m of 53 bits.  Zero is FZero.
Limb == 8192

\* Bits in a limb.
LimbBits == BitLen(Limb) - 1

RECURSIVE NTrim(_)
\* a without its leading zero limbs.
NTrim(a) ==
    IF a = <<>> THEN a
    ELSE IF a[Len(a)] = 0 THEN NTrim(SubSeq(a, 1, Len(a) - 1))
    ELSE a

RECURSIVE NFromInt(_)
\* The natural k of TLC as limbs.
NFromInt(k) ==
    IF k = 0 THEN <<>> ELSE <<k % Limb>> \o NFromInt(k \div Limb)

\* Limb i of a, 0 beyond its length.
NLimb(a, i) == IF i <= Len(a) THEN a[i] ELSE 0

RECURSIVE NCarry(_, _, _)
\* The limbs from i on of the natural whose limb j is worth c[j], a whole
\* number of either sign below 2^30 in size; x is carried into limb i.
NCarry(c, i, x) ==
    IF i > Len(c) THEN NFromInt(x)
    ELSE <<(c[i] + x) % Limb>> \o NCarry(c, i + 1, (c[i] + x) \div Limb)

\* a + b
NAdd(a, b) ==
    IF Len(a) >= Len(b)
    THEN NCarry([i \in 1 .. Len(a) |-> a[i] + NLimb(b, i)], 1, 0)
    ELSE NCarry([i \in 1 .. Len(b) |-> b[i] + NLimb(a, i)], 1, 0)

\* a - b for a >= b
NSub(a, b) == NTrim(NCarry([i \in 1 .. Len(a) |-> a[i] - NLimb(b, i)], 1, 0))

RECURSIVE NCmpAt(_, _, _)
\* Compares a and b of equal length from limb i down: -1, 0 or 1.
NCmpAt(a, b, i) ==
    IF i = 0 THEN 0
    ELSE IF a[i] < b[i] THEN -1
    ELSE IF a[i] > b[i] THEN 1
    ELSE NCmpAt(a, b, i - 1)

\* -1, 0 or 1 as a < b, a = b or a > b.
NCmp(a, b) ==
    IF Len(a) < Len(b) THEN -1
    ELSE IF Len(a) > Len(b) THEN 1
    ELSE NCmpAt(a, b, Len(a))

RECURSIVE NDot(_, _, _, _)
\* The sum of a[i] * b[k + 1 - i] over the limbs i and above of a.
NDot(a, b, k, i) ==
    IF i > Len(a) \/ i > k THEN 0
    ELSE NLimb(a, i) * NLimb(b, k + 1 - i) + NDot(a, b, k, i + 1)

\* a * b
NMul(a, b) ==
    IF a = <<>> \/ b = <<>> THEN <<>>
    ELSE NTrim(NCarry([k \in 1 .. Len(a) + Len(b) - 1 |-> NDot(a, b, k, 1)],
                      1, 0))

\* Number of binary digits of a.
NBitLen(a) ==
    IF a = <<>> THEN 0 ELSE LimbBits * (Len(a) - 1) + BitLen(a[Len(a)])

\* a * 2^k
NShl(a, k) ==
    IF a = <<>> THEN a
    ELSE [i \in 1 .. k \div LimbBits |-> 0]
             \o NCarry([i \in 1 .. Len(a) |-> a[i] * 2^(k % LimbBits)], 1, 0)

\* a \div 2^r for r < LimbBits.
NShrBits(a, r) ==
    NTrim([i \in 1 .. Len(a) |->
              a[i] \div 2^r + (NLimb(a, i + 1) % 2^r) * 2^(LimbBits - r)])

\* a \div 2^k
NShr(a, k) ==
    IF k \div LimbBits >= Len(a) THEN <<>>
    ELSE NShrBits(SubSeq(a, k \div LimbBits + 1, Len(a)), k % LimbBits)

\* Binary digit i of a, digit 0 being the lowest.
NBitAt(a, i) == (NLimb(a, i \div LimbBits + 1) \div 2^(i % LimbBits)) % 2

\* a % 2^k = 0
NLowZero(a, k) ==
    /\ \A i \in 1 .. k \div LimbBits : NLimb(a, i) = 0
    /\ NLimb(a, k \div LimbBits + 1) % 2^(k % LimbBits) = 0

RECURSIVE NToInt(_)
\* The natural a < 2^31 as a number of TLC.
NToInt(a) == IF a = <<>> THEN 0 ELSE a[1] + Limb * NToInt(Tail(a))

\* Bits of the significand of a binary64 float.
Bits64 == 53

\* Extra bits carried inside pow() on binary64 floats.
Guard64 == 24

\* The binary64 float s * m * 2^e.
WPack(s, m, e) == [s |-> s, m |-> m, e |-> e]

\* Whether the float a is a binary64 float.
IsWide(a) == "s" \in DOMAIN a

\* s * q * 2^e for a significand q that rounding may have carried to 2^p.
WCarry(p, s, q, e) ==
    IF NBitLen(q) > p THEN WPack(s, NShr(q, 1), e + 1) ELSE WPack(s, q, e)

\* Drops the d low bits of m, q being the bits kept: to nearest, ties to
\* even.
WCut(p, s, m, d, q, e) ==
    WCarry(p, s,
           IF NBitAt(m, d - 1) = 1 /\ (~ NLowZero(m, d - 1) \/ q[1] % 2 = 1)
           THEN NAdd(q, <<1>>) ELSE q,
           e + d)

\* s * m * 2^e for a natural m > 0 of L bits, rounded to p bits.
WRoundLen(p, s, m, L, e) ==
    IF L <= p THEN WPack(s, NShl(m, p - L), e - (p - L))
    ELSE WCut(p, s, m, L - p, NShr(m, L - p), e)

\* s * m * 2^e rounded to p significant bits, to nearest, ties to even.
WRound(p, s, m, e) ==
    IF m = <<>> THEN FZero ELSE WRoundLen(p, s, m, NBitLen(m), e)

\* The binary64 float of the integer k.
WFromInt(k) == WRound(Bits64, ISign(k), NFromInt(IAbs(k)), 0)

\* The float a as a binary64 float: every float of Prec bits is one.
ToWide(a) ==
    IF a = FZero \/ IsWide(a) THEN a
    ELSE WRound(Bits64, ISign(a.m), NFromInt(IAbs(a.m)), a.e)

\* s1 * m1 * 2^e + s2 * m2 * 2^e, c comparing m1 with m2.
WAddSigned(p, s1, m1, s2, m2, e, c) ==
    IF s1 = s2 THEN WRound(p, s1, NAdd(m1, m2), e)
    ELSE IF c = 0 THEN FZero
    ELSE IF c > 0 THEN WRound(p, s1, NSub(m1, m2), e)
    ELSE WRound(p, s2, NSub(m2, m1), e)

\* hi + lo with the significand m of hi shifted to the exponent of lo.
WAddShifted(p, hi, m, lo) ==
    WAddSigned(p, hi.s, m, lo.s, lo.m, lo.e, NCmp(m, lo.m))

\* hi + lo for hi.e >= lo.e.
WAddAligned(p, hi, lo) ==
    IF hi.e - lo.e >= p + 2 THEN hi
    ELSE WAddShifted(p, hi, NShl(hi.m, hi.e - lo.e), lo)

\* a + b of two binary64 floats.
WAdd(a, b) ==
    IF a = FZero THEN b
    ELSE IF b = FZero THEN a
    ELSE IF a.e >= b.e THEN WAddAligned(Bits64, a, b)
    ELSE WAddAligned(Bits64, b, a)

\* a * b of two floats other than 0, rounded to p bits.
WMulTo(p, a, b) == WRound(p, a.s * b.s, NMul(a.m, b.m), a.e + b.e)

\* a * b of two binary64 floats.
WMul(a, b) ==
    IF a = FZero \/ b = FZero THEN FZero ELSE WMulTo(Bits64, a, b)

\* One digit of a binary long division by den: t is <<the quotient so far,
\* twice the remainder>>.
WDivStep(t, den) ==
    IF NCmp(t[2], den) >= 0
    THEN <<NAdd(NShl(t[1], 1), <<1>>), NShl(NSub(t[2], den), 1)>>
    ELSE <<NShl(t[1], 1), NShl(t[2], 1)>>

RECURSIVE WDivRun(_, _, _)
\* k >= 1 digits of the long division, a half of them after the other; the
\* set brackets have the first half computed first.
WDivRun(t, den, k) ==
    IF k = 1 THEN WDivStep(t, den)
    ELSE CHOOSE u \in {WDivRun(h, den, k - k \div 2) :
                          h \in {WDivRun(t, den, k \div 2)}} : TRUE

\* Rounds the quotient t = <<digits, twice the remainder>> of a long
\* division: what is left survives as a sticky bit below the digits.
WDivRound(p, s, t, x) ==
    WRound(p, s, NAdd(NShl(t[1], 1), IF t[2] = <<>> THEN <<>> ELSE <<1>>), x)

\* s * (num / den) * 2^x for naturals num >= den > 0 with num < 2 * den.
WDivNear(p, s, num, den, x) ==
    WDivRound(p, s,
              WDivRun(<<<<1>>, NShl(NSub(num, den), 1)>>, den, p + 1),
              x - (p + 1) - 1)

\* s * (num / den) * 2^x for naturals of the same number of bits.
WDivSame(p, s, num, den, x) ==
    IF NCmp(num, den) >= 0 THEN WDivNear(p, s, num, den, x)
    ELSE WDivNear(p, s, NShl(num, 1), den, x - 1)

\* s * (num / den) * 2^x for naturals num > 0 and den > 0 of Ln and Ld bits.
WDivLen(p, s, num, Ln, den, Ld, x) ==
    IF Ln >= Ld THEN WDivSame(p, s, num, NShl(den, Ln - Ld), x + (Ln - Ld))
    ELSE WDivSame(p, s, NShl(num, Ld - Ln), den, x - (Ld - Ln))

\* s * (num / den) * 2^x for naturals num > 0 and den > 0, rounded to p bits.
WDivTo(p, s, num, den, x) ==
    WDivLen(p, s, num, NBitLen(num), den, NBitLen(den), x)

\* a / b of two binary64 floats, b other than 0.
WDiv(a, b) ==
    IF a = FZero THEN FZero
    ELSE WDivTo(Bits64, a.s * b.s, a.m, b.m, a.e - b.e)

\* num / den as a binary64 float, for whole numbers num >= 0 and den > 0:
\* the float of the decimal literal num / den when den is a power of 10.
WRatio(num, den) ==
    IF num = 0 THEN FZero
    ELSE WDivTo(Bits64, 1, NFromInt(num), NFromInt(den), 0)

\* h * h, and once more by b when the exponent is odd.
WPowStep(h, b, odd) ==
    IF odd THEN WMulTo(Bits64 + Guard64, WMulTo(Bits64 + Guard64, h, h), b)
    ELSE WMulTo(Bits64 + Guard64, h, h)

RECURSIVE WPowWide(_, _)
\* b ** k for k >= 0, carried with Bits64 + Guard64 bits, by squaring; the
\* set brackets have the power of the half exponent computed first.
WPowWide(b, k) ==
    IF k = 0 THEN WRound(Bits64 + Guard64, 1, <<1>>, 0)
    ELSE CHOOSE w \in {WPowStep(h, b, k % 2 = 1) :
                          h \in {WPowWide(b, k \div 2)}} : TRUE

\* 1 / w for w > 0, rounded to a binary64 float.
WRecip(w) == WDivTo(Bits64, 1, <<1>>, w.m, -w.e)

\* a < b of two binary64 floats of the same sign s, neither being 0.
WLtSame(s, a, b) ==
    IF s > 0
    THEN a.e < b.e \/ (a.e = b.e /\ NCmp(a.m, b.m) < 0)
    ELSE a.e > b.e \/ (a.e = b.e /\ NCmp(a.m, b.m) > 0)

\* a < b of two binary64 floats.
WLt(a, b) ==
    IF a = FZero THEN b # FZero /\ b.s > 0
    ELSE IF b = FZero THEN a.s < 0
    ELSE IF a.s # b.s THEN a.s < b.s
    ELSE WLtSame(a.s, a, b)

\* ------------------------------------------- the operations of the floats
\* An operation with a binary64 operand is the binary64 operation, the other
\* operand taken to binary64 as it is.
\* -a
FNeg(a) ==
    IF IsWide(a) THEN [a EXCEPT !.s = -a.s] ELSE [m |-> -a.m, e |-> a.e]

\* abs(a)
FAbs(a) ==
    IF IsWide(a) THEN [a EXCEPT !.s = 1] ELSE [m |-> IAbs(a.m), e |-> a.e]

\* a < b
FLt(a, b) ==
    IF IsWide(a) \/ IsWide(b) THEN WLt(ToWide(a), ToWide(b))
    ELSE IF a.m = 0 THEN b.m > 0
    ELSE IF b.m = 0 THEN a.m < 0
    ELSE IF a.m < 0 /\ b.m > 0 THEN TRUE
    ELSE IF a.m > 0 /\ b.m < 0 THEN FALSE
    ELSE IF a.m > 0 THEN a.e < b.e \/ (a.e = b.e /\ a.m < b.m)
    ELSE a.e > b.e \/ (a.e = b.e /\ a.m < b.m)

\* a <= b
FLe(a, b) == ~ FLt(b, a)

\* max(a, b) of Python: b only when b > a.
FMax(a, b) == IF FLt(a, b) THEN b ELSE a

\* hi + lo for hi.e >= lo.e: the exact sum, rounded; a term below a quarter
\* of the last place of the other changes nothing.
AddAligned(p, hi, lo) ==
    IF hi.e - lo.e >= p + 2 THEN hi
    ELSE RoundTo(p, hi.m * 2^(hi.e - lo.e) + lo.m, lo.e)

\* a + b of two floats of p bits, rounded to p bits.
AddTo(p, a, b) ==
    IF a.m = 0 THEN b
    ELSE IF b.m = 0 THEN a
    ELSE IF a.e >= b.e THEN AddAligned(p, a, b)
    ELSE AddAligned(p, b, a)

\* a + b
FAdd(a, b) ==
    IF IsWide(a) \/ IsWide(b) THEN WAdd(ToWide(a), ToWide(b))
    ELSE AddTo(Prec, a, b)

\* a - b
FSub(a, b) == FAdd(a, FNeg(b))

\* a * b of two floats of at most p bits, rounded to p bits.
MulTo(p, a, b) == RoundTo(p, a.m * b.m, a.e + b.e)

\* a * b
FMul(a, b) ==
    IF IsWide(a) \/ IsWide(b) THEN WMul(ToWide(a), ToWide(b))
    ELSE MulTo(Prec, a, b)

RECURSIVE LongDiv(_, _, _, _, _)
\* Binary long division: extends the quotient acc (remainder rem, divisor
\* den) bit by bit until it has `bits` digits; sh counts the digits added.
LongDiv(acc, rem, den, bits, sh) ==
    IF BitLen(acc) >= bits THEN <<acc, rem, sh>>
    ELSE IF 2 * rem >= den
         THEN LongDiv(2 * acc + 1, 2 * rem - den, den, bits, sh + 1)
         ELSE LongDiv(2 * acc, 2 * rem, den, bits, sh + 1)

\* Rounds the quotient r = <<digits, remainder, shift>> of a long division:
\* the remainder survives as a sticky bit below the digits.
DivRound(p, r, x) ==
    RoundTo(p, 2 * r[1] + (IF r[2] = 0 THEN 0 ELSE 1), x - r[3] - 1)

\* (num / den) * 2^x for naturals num > 0, den > 0, rounded to p bits: the
\* quotient is developed to p + 2 bits, which is enough to round the exact
\* quotient correctly.
DivTo(p, num, den, x) ==
    DivRound(p, LongDiv(num \div den, num % den, den, p + 2, 0), x)

\* q with the sign s.
FSigned(s, q) == IF s > 0 THEN q ELSE FNeg(q)

\* a / b for b # 0.
FDiv(a, b) ==
    IF IsWide(a) \/ IsWide(b) THEN WDiv(ToWide(a), ToWide(b))
    ELSE IF a.m = 0 THEN FZero
    ELSE FSigned(ISign(a.m) * ISign(b.m),
                 DivTo(Prec, IAbs(a.m), IAbs(b.m), a.e - b.e))

RECURSIVE PowWide(_, _)
\* b ** k for k >= 0, carried with Prec + GuardBits bits.
PowWide(b, k) ==
    IF k = 0 THEN RoundTo(Prec + GuardBits, 1, 0)
    ELSE MulTo(Prec + GuardBits, PowWide(b, k - 1), b)

\* 1 / w for w > 0, rounded to a float.
Recip(w) == DivTo(Prec, 1, w.m, -w.e)

\* b ** (-k) for a float b >= 1 and an int k >= 0: float.__pow__ hands the
\* operands to the C library's pow(), which evaluates in extended precision
\* and rounds once at the end (error below one unit in the last place).
FPowNeg(b, k) ==
    IF IsWide(b) THEN WRecip(WPowWide(b, k)) ELSE Recip(PowWide(b, k))

\* num / den as a float, for naturals num and den > 0.
FRatio(num, den) == IF num = 0 THEN FZero ELSE DivTo(Prec, num, den, 0)

\* The outcome of an expression that may raise.
Ok(v) == [status |-> "ok", v |-> v]

Raise(exc) == [status |-> exc, v |-> FZero]

\* a / b of Python.
TrueDiv(a, b) ==
    IF b = FZero THEN Raise("ZeroDivisionError") ELSE Ok(FDiv(a, b))

\* ------------------------------------------------------------ the inputs
\* A positive rate so small that 1 + r rounds to 1 (1e-17 in binary64).
TinyRate == [m |-> 2^(Prec - 1), e |-> -(2 * Prec + 1)]

\* Monthly rates r_m >= 0 handed to the functions: 0, the tiny rate, 10 %, 25 %
\* and 200 %.
Rates == {FZero, TinyRate, FRatio(1, 10), FRatio(1, 4), FFromInt(2)}

\* Principals, the non-positive ones of the guards included.
Principals == {FFromInt(-1), FZero, FFromInt(1), FFromInt(100)}

\* Terms in months, the non-positive ones of the guards included.
Terms == -1 .. MaxN

\* Lengths of phase 1, those outside [0, n] included.
Phase1Months == -1 .. MaxN + 1

VARIABLES
    pc,      \* position: "idle", inside a loop, "done" or "raised"
    fn,      \* the function called
    args,    \* its arguments
    sched,   \* locals of amortization_schedule
    mixed,   \* locals of mixed_total_interest
    solve,   \* locals of solve_r2_for_equal_interest
    ret      \* the value returned ("done") or the exception ("raised")

vars == <<pc, fn, args, sched, mixed, solve, ret>>

\* ------------------------------------------------- amortization_schedule
\* Lines 167-170 (and 210-213, 228-231): the level payment of P over n
\* months at the monthly rate r_m.
LevelPayment(P, r_m, n) ==
    IF r_m = FZero THEN TrueDiv(P, FFromInt(n))
    ELSE TrueDiv(FMul(P, r_m), FSub(FOne, FPowNeg(FAdd(FOne, r_m), n)))

\* Line 175 (and 218, 236): the interest of one month.
MonthInterest(balance, r_m) ==
    IF r_m # FZero THEN FMul(balance, r_m) ELSE FZero

\* MonthPrincipal with line 176 taking no interest off the payment.
MonthPrincipalWhole(payment, interest, r_m) == payment

\* Line 176 (and 219, 237): the principal paid in one month.
MonthPrincipal(payment, interest, r_m) ==
    IF r_m # FZero THEN FSub(payment, interest) ELSE payment

NoSched == [status |-> "none", payment |-> FZero, balance |-> FZero,
            m |-> 0, rows |-> <<>>]

\* Lines 167-173: the payment, if no exception, and the opening balance.
ScheduleOpen(P, pay) ==
    IF pay.status # "ok" THEN [NoSched EXCEPT !.status = pay.status]
    ELSE [NoSched EXCEPT !.status = "loop", !.payment = pay.v, !.balance = P]

\* Lines 165-173: the guard, the level payment and the opening balance.
ScheduleEnter(P, r_m, n) ==
    IF FLe(P, FZero) \/ n <= 0 THEN [NoSched EXCEPT !.status = "returned"]
    ELSE ScheduleOpen(P, LevelPayment(P, r_m, n))

\* RowAppend with line 192 writing balance_end as it is, without max(.., 0.0).
RowAppendRaw(fr, payment_eff, interest, principal_pay, balance_end, status) ==
    [fr EXCEPT !.m = fr.m + 1,
               !.rows = Append(fr.rows,
                               [Mes          |-> fr.m + 1,
                                Cuota        |-> payment_eff,
                                Intereses    |-> interest,
                                Amortizacion |-> principal_pay,
                                SaldoFinal   |-> balance_end]),
               !.balance = balance_end,
               !.status = status]

\* Lines 186-195: the row of month fr.m + 1 and the balance carried on.
RowAppend(fr, payment_eff, interest, principal_pay, balance_end, status) ==
    [fr EXCEPT !.m = fr.m + 1,
               !.rows = Append(fr.rows,
                               [Mes          |-> fr.m + 1,
                                Cuota        |-> payment_eff,
                                Intereses    |-> interest,
                                Amortizacion |-> principal_pay,
                                SaldoFinal   |-> FMax(balance_end, FZero)]),
               !.balance = balance_end,
               !.status = status]

\* LastRow without line 179: the last month pays the level payment like any
\* other month.
LastRowLevel(fr, interest) ==
    RowAppend(fr, fr.payment, interest, fr.payment, FZero, "returned")

\* Lines 178-181: the last month pays the whole balance.
LastRow(fr, interest) ==
    RowAppend(fr, FAdd(fr.balance, interest), interest, fr.balance, FZero,
              "returned")

\* Lines 182-184: any other month pays the level payment.
LevelRow(fr, interest, principal_pay) ==
    RowAppend(fr, fr.payment, interest, principal_pay,
              FSub(fr.balance, principal_pay), "loop")

\* Lines 176-184: the two kinds of month.
RowSplit(r_m, n, fr, interest) ==
    IF fr.m + 1 = n THEN LastRow(fr, interest)
    ELSE LevelRow(fr, interest, MonthPrincipal(fr.payment, interest, r_m))

\* Lines 174-195: one pass of the loop, for month fr.m + 1.
ScheduleRow(r_m, n, fr) ==
    RowSplit(r_m, n, fr, MonthInterest(fr.balance, r_m))

RECURSIVE ScheduleLoop(_, _, _)
\* Lines 174-197: the passes left, then the return.
ScheduleLoop(r_m, n, fr) ==
    IF fr.status = "loop" THEN ScheduleLoop(r_m, n, ScheduleRow(r_m, n, fr))
    ELSE fr

\* amortization_schedule(P, r_m, n) run to its end: the frame it ends in,
\* whose rows are the DataFrame returned.
amortization_schedule(P, r_m, n) ==
    ScheduleLoop(r_m, n, ScheduleEnter(P, r_m, n))

\* --------------------------------------------------- mixed_total_interest
NoMixed == [status |-> "none", payment1 |-> FZero, balance |-> FZero,
            interest_p1 |-> FZero, i |-> 0, n2 |-> 0, payment2 |-> FZero,
            interest_p2 |-> FZero, bal |-> FZero, j |-> 0, ret |-> <<>>]

\* Lines 210-216: the phase-1 payment, if no exception, and the balance.
MixedOpen(P, pay) ==
    IF pay.status # "ok" THEN [NoMixed EXCEPT !.status = pay.status]
    ELSE [NoMixed EXCEPT !.status = "phase1", !.payment1 = pay.v,
                         !.balance = P]

\* MixedEnter with the guard of line 206 missing its last test, m1 > n.
MixedEnterNoUpper(P, n, r1_m, m1) ==
    IF FLe(P, FZero) \/ n <= 0 \/ m1 < 0
    THEN [NoMixed EXCEPT !.status = "returned",
                         !.ret = <<FZero, FZero, FZero, P>>]
    ELSE MixedOpen(P, LevelPayment(P, r1_m, n))

\* Lines 206-216: the guard, the phase-1 payment and the opening balance.
MixedEnter(P, n, r1_m, m1) ==
    IF FLe(P, FZero) \/ n <= 0 \/ m1 < 0 \/ m1 > n
    THEN [NoMixed EXCEPT !.status = "returned",
                         !.ret = <<FZero, FZero, FZero, P>>]
    ELSE MixedOpen(P, LevelPayment(P, r1_m, n))

\* Phase1Pay with line 220 taking the whole payment off the balance.
Phase1PayWhole(fr, interest, r1_m) ==
    [fr EXCEPT !.balance = FSub(fr.balance, fr.payment1),
               !.interest_p1 = FAdd(fr.interest_p1, interest),
               !.i = fr.i + 1]

\* Lines 218-221: what one month of phase 1 does to the locals.
Phase1Pay(fr, interest, r1_m) ==
    [fr EXCEPT !.balance = FSub(fr.balance,
                                MonthPrincipal(fr.payment1, interest, r1_m)),
               !.interest_p1 = FAdd(fr.interest_p1, interest),
               !.i = fr.i + 1]

\* Lines 217-221: one pass of the phase-1 loop.
MixedPhase1Pass(r1_m, fr) ==
    Phase1Pay(fr, MonthInterest(fr.balance, r1_m), r1_m)

\* Lines 228-234: the phase-2 payment, if no exception, on the balance
\* carried over.
Phase2Open(fr, n2, pay) ==
    IF pay.status # "ok" THEN [fr EXCEPT !.status = pay.status, !.n2 = n2]
    ELSE [fr EXCEPT !.status = "phase2", !.n2 = n2, !.payment2 = pay.v,
                    !.bal = fr.balance]

\* MixedSwitch with line 231 spreading the phase-2 payment over the whole
\* term n, not over the n - m1 months left.
MixedSwitchFullTerm(n, m1, r2_m, fr) ==
    IF n - m1 <= 0
    THEN [fr EXCEPT !.status = "returned", !.n2 = n - m1,
                    !.ret = <<fr.interest_p1, fr.interest_p1, FZero, FZero>>]
    ELSE Phase2Open(fr, n - m1, LevelPayment(fr.balance, r2_m, n))

\* Lines 223-234: the end of phase 1: return when no month is left, else
\* open phase 2.
MixedSwitch(n, m1, r2_m, fr) ==
    IF n - m1 <= 0
    THEN [fr EXCEPT !.status = "returned", !.n2 = n - m1,
                    !.ret = <<fr.interest_p1, fr.interest_p1, FZero, FZero>>]
    ELSE Phase2Open(fr, n - m1, LevelPayment(fr.balance, r2_m, n - m1))

\* Lines 236-239: what one month of phase 2 does to the locals.
Phase2Pay(fr, interest, r2_m) ==
    [fr EXCEPT !.bal = FSub(fr.bal,
                            MonthPrincipal(fr.payment2, interest, r2_m)),
               !.interest_p2 = FAdd(fr.interest_p2, interest),
               !.j = fr.j + 1]

\* Lines 235-239: one pass of the phase-2 loop.
MixedPhase2Pass(r2_m, fr) ==
    Phase2Pay(fr, MonthInterest(fr.bal, r2_m), r2_m)

\* MixedExit with line 241 returning the phase-1 interest as the total.
MixedExitPhase1Only(fr) ==
    [fr EXCEPT !.status = "returned",
               !.ret = <<fr.interest_p1, fr.interest_p1, fr.interest_p2,
                         fr.balance>>]

\* Line 241: the result of a two-phase loan.
MixedExit(fr) ==
    [fr EXCEPT !.status = "returned",
               !.ret = <<FAdd(fr.interest_p1, fr.interest_p2),
                         fr.interest_p1, fr.interest_p2, fr.balance>>]

\* The step the function takes next from frame fr.
MixedNext(n, r1_m, m1, r2_m, fr) ==
    IF fr.status = "phase1"
    THEN IF fr.i < m1 THEN MixedPhase1Pass(r1_m, fr)
         ELSE MixedSwitch(n, m1, r2_m, fr)
    ELSE IF fr.j < fr.n2 THEN MixedPhase2Pass(r2_m, fr)
         ELSE MixedExit(fr)

RECURSIVE MixedLoop(_, _, _, _, _)
\* Lines 217-241: the steps left.
MixedLoop(n, r1_m, m1, r2_m, fr) ==
    IF fr.status \in {"phase1", "phase2"}
    THEN MixedLoop(n, r1_m, m1, r2_m, MixedNext(n, r1_m, m1, r2_m, fr))
    ELSE fr

\* mixed_total_interest(P, n, r1_m, m1, r2_m) run to its end: the frame it
\* ends in, whose ret is the 4-tuple returned.
mixed_total_interest(P, n, r1_m, m1, r2_m) ==
    MixedLoop(n, r1_m, m1, r2_m, MixedEnter(P, n, r1_m, m1))

\* -------------------------------------------- solve_r2_for_equal_interest
RECURSIVE AddFrom(_, _, _, _, _)
\* ((acc + s[k]) + s[k + step]) + ... over the indices up to last.
AddFrom(acc, s, k, step, last) ==
    IF k > last THEN acc
    ELSE AddFrom(FAdd(acc, s[k]), s, k + step, step, last)

\* The 8 interleaved accumulators of numpy's summation, added as a tree.
SumTree(s, full) ==
    FAdd(FAdd(FAdd(AddFrom(s[1], s, 9, 8, full), AddFrom(s[2], s, 10, 8, full)),
              FAdd(AddFrom(s[3], s, 11, 8, full), AddFrom(s[4], s, 12, 8, full))),
         FAdd(FAdd(AddFrom(s[5], s, 13, 8, full), AddFrom(s[6], s, 14, 8, full)),
              FAdd(AddFrom(s[7], s, 15, 8, full), AddFrom(s[8], s, 16, 8, full))))

\* Where numpy splits a column of more than 128 values.
SumSplit(len) == (len \div 2) - ((len \div 2) % 8)

RECURSIVE SeriesSum(_)
\* Series.sum() of a float64 column: numpy's pairwise summation.  Fewer than
\* 8 values are added one after the other; up to 128 values go to 8
\* interleaved accumulators that are then added as a tree, the values left
\* over being added at the end; longer columns are split in two.
SeriesSum(s) ==
    IF Len(s) < 8 THEN AddFrom(FZero, s, 1, 1, Len(s))
    ELSE IF Len(s) <= 128
    THEN AddFrom(SumTree(s, Len(s) - (Len(s) % 8)), s,
                 Len(s) - (Len(s) % 8) + 1, 1, Len(s))
    ELSE FAdd(SeriesSum(SubSeq(s, 1, SumSplit(Len(s)))),
              SeriesSum(SubSeq(s, SumSplit(Len(s)) + 1, Len(s))))

\* The column "Intereses" of a schedule.
Intereses(rows) == [k \in 1 .. Len(rows) |-> rows[k].Intereses]

\* The rate returned: None, or a number.
None == [none |-> TRUE, v |-> FZero]

Some(x) == [none |-> FALSE, v |-> x]

\* Line 261: hi = 2.0 / 12.0
HiStart == FDiv(FFromInt(2), FFromInt(12))

\* Line 267: hi *= 1.5
HiGrowth == FRatio(3, 2)

\* Line 266: attempts < 20
MaxAttempts == 20

\* Line 275: range(80)
MaxBisections == 80

\* Line 278: abs(f_mid) < 1e-8
Tolerance == FRatio(1, 100000000)

\* Line 261 in the arithmetic of the call: the binary64 float of 2.0 / 12.0
\* when the principal is a binary64 float.
HiStartIn(P) ==
    IF IsWide(P) THEN FDiv(WFromInt(2), WFromInt(12)) ELSE HiStart

\* Line 278 in the arithmetic of the call: the binary64 float of 1e-8 when
\* the bracket is one of binary64 floats.
ToleranceIn(hi) == IF IsWide(hi) THEN WRatio(1, 100000000) ELSE Tolerance

NoSolve == [status |-> "none", target |-> FZero, lo |-> FZero, hi |-> FZero,
            f_lo |-> FZero, f_hi |-> FZero, attempts |-> 0, it |-> 0,
            ret |-> <<>>]

\* Line 258: total - target, or the exception mixed_total_interest raised.
FValue(mx, target) ==
    IF mx.status = "returned" THEN Ok(FSub(mx.ret[1], target))
    ELSE Raise(mx.status)

\* Lines 256-258: f(r2m)
SolveF(P, n, r1_m, m1, target, r2m) ==
    FValue(mixed_total_interest(P, n, r1_m, m1, r2m), target)

\* Lines 253-254, 272-273 and 288-289: the 5-tuple returned with the rate
\* and the interest mx of the mixed loan, or the exception that raised.
SolveResult(fr, rate, mx) ==
    IF mx.status = "returned"
    THEN [fr EXCEPT !.status = "returned",
                    !.ret = <<rate, fr.target, mx.ret[1], mx.ret[2],
                              mx.ret[3]>>]
    ELSE [fr EXCEPT !.status = mx.status]

\* Lines 260-263: the first bracket [0, 2/12] and f at its ends.
FirstBracket(target, hi, f_lo, f_hi) ==
    IF f_lo.status # "ok" THEN [NoSolve EXCEPT !.status = f_lo.status]
    ELSE IF f_hi.status # "ok" THEN [NoSolve EXCEPT !.status = f_hi.status]
    ELSE [NoSolve EXCEPT !.status = "expand", !.target = target,
                         !.hi = hi, !.f_lo = f_lo.v, !.f_hi = f_hi.v]

\* Lines 252-263: no phase 2 to solve, or the first bracket.
SolveBegin(P, n, r1_m, m1, target) ==
    IF m1 >= n
    THEN SolveResult([NoSolve EXCEPT !.target = target], None,
                     mixed_total_interest(P, n, r1_m, m1, FZero))
    ELSE FirstBracket(target, HiStartIn(P),
                      SolveF(P, n, r1_m, m1, target, FZero),
                      SolveF(P, n, r1_m, m1, target, HiStartIn(P)))

\* Line 250: the target; an empty DataFrame has no column "Intereses".
SolveTarget(P, n, r1_m, m1, df_fixed) ==
    IF df_fixed.status # "returned"
    THEN [NoSolve EXCEPT !.status = df_fixed.status]
    ELSE IF df_fixed.rows = <<>> THEN [NoSolve EXCEPT !.status = "KeyError"]
    ELSE SolveBegin(P, n, r1_m, m1, SeriesSum(Intereses(df_fixed.rows)))

\* Lines 249-263: the target, the early return and the first bracket.
SolveEnter(P, n, r_fixed_m, r1_m, m1) ==
    SolveTarget(P, n, r1_m, m1, amortization_schedule(P, r_fixed_m, n))

\* Lines 266 and 271: f_lo * f_hi > 0
SameSign(fr) == FLt(FZero, FMul(fr.f_lo, fr.f_hi))

\* Widened without the count of line 269, attempts += 1.
WidenedUncounted(fr, hi, f_hi) ==
    IF f_hi.status # "ok" THEN [fr EXCEPT !.status = f_hi.status]
    ELSE [fr EXCEPT !.hi = hi, !.f_hi = f_hi.v]

\* Lines 267-269: the bracket with its upper end moved to hi.
Widened(fr, hi, f_hi) ==
    IF f_hi.status # "ok" THEN [fr EXCEPT !.status = f_hi.status]
    ELSE [fr EXCEPT !.hi = hi, !.f_hi = f_hi.v, !.attempts = fr.attempts + 1]

\* Lines 268-269: f at the new upper end.
ExpandTo(P, n, r1_m, m1, fr, hi) ==
    Widened(fr, hi, SolveF(P, n, r1_m, m1, fr.target, hi))

\* Lines 267-269: one pass of the loop that widens the bracket.
SolveExpandPass(P, n, r1_m, m1, fr) ==
    ExpandTo(P, n, r1_m, m1, fr, FMul(fr.hi, HiGrowth))

\* Lines 271-273: after the widening, give up or start the bisection.
SolveBracket(P, n, r1_m, m1, fr) ==
    IF SameSign(fr)
    THEN SolveResult(fr, None, mixed_total_interest(P, n, r1_m, m1, fr.lo))
    ELSE [fr EXCEPT !.status = "bisect"]

\* Lines 276 and 287: (lo + hi) / 2
Midpoint(lo, hi) == FDiv(FAdd(lo, hi), FFromInt(2))

\* Narrowed with the test of line 281 turned round: the half without the
\* change of sign is kept.
NarrowedWrongHalf(fr, mid, f_mid) ==
    IF f_mid.status # "ok" THEN [fr EXCEPT !.status = f_mid.status]
    ELSE IF FLt(FAbs(f_mid.v), ToleranceIn(fr.hi))
    THEN [fr EXCEPT !.lo = mid, !.hi = mid, !.it = fr.it + 1,
                    !.status = "break"]
    ELSE IF FLt(FZero, FMul(fr.f_lo, f_mid.v))
    THEN [fr EXCEPT !.hi = mid, !.it = fr.it + 1]
    ELSE [fr EXCEPT !.lo = mid, !.f_lo = f_mid.v, !.it = fr.it + 1]

\* Lines 278-285: the bracket after f was evaluated at mid.
Narrowed(fr, mid, f_mid) ==
    IF f_mid.status # "ok" THEN [fr EXCEPT !.status = f_mid.status]
    ELSE IF FLt(FAbs(f_mid.v), ToleranceIn(fr.hi))
    THEN [fr EXCEPT !.lo = mid, !.hi = mid, !.it = fr.it + 1,
                    !.status = "break"]
    ELSE IF FLe(FMul(fr.f_lo, f_mid.v), FZero)
    THEN [fr EXCEPT !.hi = mid, !.it = fr.it + 1]
    ELSE [fr EXCEPT !.lo = mid, !.f_lo = f_mid.v, !.it = fr.it + 1]

\* Lines 277-285: f at mid, and the half kept.
BisectAt(P, n, r1_m, m1, fr, mid) ==
    Narrowed(fr, mid, SolveF(P, n, r1_m, m1, fr.target, mid))

\* Lines 276-285: one pass of the bisection.
SolveBisectPass(P, n, r1_m, m1, fr) ==
    BisectAt(P, n, r1_m, m1, fr, Midpoint(fr.lo, fr.hi))

\* ExitAt with line 288 evaluating the loan at rate 0, not at the rate found.
ExitAtLo(P, n, r1_m, m1, fr, r2_m_solution) ==
    SolveResult(fr, Some(r2_m_solution),
                mixed_total_interest(P, n, r1_m, m1, FZero))

\* Lines 288-289: the interest the rate found gives.
ExitAt(P, n, r1_m, m1, fr, r2_m_solution) ==
    SolveResult(fr, Some(r2_m_solution),
                mixed_total_interest(P, n, r1_m, m1, r2_m_solution))

\* Lines 287-289: the rate found and the interest it gives.
SolveExit(P, n, r1_m, m1, fr) ==
    ExitAt(P, n, r1_m, m1, fr, Midpoint(fr.lo, fr.hi))

\* The step the function takes next from frame fr.
SolveNext(P, n, r1_m, m1, fr) ==
    IF fr.status = "expand"
    THEN IF SameSign(fr) /\ fr.attempts < MaxAttempts
         THEN SolveExpandPass(P, n, r1_m, m1, fr)
         ELSE SolveBracket(P, n, r1_m, m1, fr)
    ELSE IF fr.status = "bisect" /\ fr.it < MaxBisections
    THEN SolveBisectPass(P, n, r1_m, m1, fr)
    ELSE SolveExit(P, n, r1_m, m1, fr)

RECURSIVE SolveLoop(_, _, _, _, _)
\* Lines 266-289: the steps left.
SolveLoop(P, n, r1_m, m1, fr) ==
    IF fr.status \in {"expand", "bisect", "break"}
    THEN SolveLoop(P, n, r1_m, m1, SolveNext(P, n, r1_m, m1, fr))
    ELSE fr

\* solve_r2_for_equal_interest(P, n, r_fixed_m, r1_m, m1) run to its end.
solve_r2_for_equal_interest(P, n, r_fixed_m, r1_m, m1) ==
    SolveLoop(P, n, r1_m, m1, SolveEnter(P, n, r_fixed_m, r1_m, m1))

\* ------------------------------------------------------------ the machine
\* Every call starts from scratch: the functions keep nothing between calls.
Callable == pc = "idle"

\* Where a call stands after a step that left its frame in status st.
PcOf(st) ==
    IF st = "returned" THEN "done"
    ELSE IF st \in {"ZeroDivisionError", "KeyError"} THEN "raised"
    ELSE st

\* What the caller holds after a step that left frame fr, whose value is
\* out when it returned.
RetOf(fr, out) ==
    IF fr.status = "returned" THEN out
    ELSE IF PcOf(fr.status) = "raised" THEN fr.status
    ELSE <<>>

\* A call of amortization_schedule, up to the first pass of its loop.
CallSchedule ==
    /\ Callable
    /\ \E P \in Principals, r_m \in Rates, n \in Terms :
          \E fr \in {ScheduleEnter(P, r_m, n)} :
             /\ fn' = "amortization_schedule"
             /\ args' = [P |-> P, r_m |-> r_m, n |-> n]
             /\ sched' = fr
             /\ pc' = PcOf(fr.status)
             /\ ret' = RetOf(fr, fr.rows)
    /\ UNCHANGED <<mixed, solve>>

\* One pass of the loop; the last one returns the rows.
ScheduleStep ==
    /\ pc = "loop"
    /\ \E fr \in {ScheduleRow(args.r_m, args.n, sched)} :
          /\ sched' = fr
          /\ pc' = PcOf(fr.status)
          /\ ret' = RetOf(fr, fr.rows)
    /\ UNCHANGED <<fn, args, mixed, solve>>

\* A call of mixed_total_interest, up to the first pass of its loops.
CallMixed ==
    /\ Callable
    /\ \E P \in Principals, n \in Terms, r1_m \in Rates,
          m1 \in Phase1Months, r2_m \in Rates :
          \E fr \in {MixedEnter(P, n, r1_m, m1)} :
             /\ fn' = "mixed_total_interest"
             /\ args' = [P |-> P, n |-> n, r1_m |-> r1_m, m1 |-> m1,
                         r2_m |-> r2_m]
             /\ mixed' = fr
             /\ pc' = PcOf(fr.status)
             /\ ret' = RetOf(fr, fr.ret)
    /\ UNCHANGED <<sched, solve>>

\* What a step of mixed_total_interest leaves behind.
MixedMoves(fr) ==
    /\ mixed' = fr
    /\ pc' = PcOf(fr.status)
    /\ ret' = RetOf(fr, fr.ret)
    /\ UNCHANGED <<fn, args, sched, solve>>

\* One pass of the phase-1 loop.
MixedPhase1Step ==
    /\ pc = "phase1"
    /\ mixed.i < args.m1
    /\ MixedMoves(MixedPhase1Pass(args.r1_m, mixed))

\* The phase-1 loop is over.
MixedSwitchStep ==
    /\ pc = "phase1"
    /\ mixed.i >= args.m1
    /\ MixedMoves(MixedSwitch(args.n, args.m1, args.r2_m, mixed))

\* One pass of the phase-2 loop.
MixedPhase2Step ==
    /\ pc = "phase2"
    /\ mixed.j < mixed.n2
    /\ MixedMoves(MixedPhase2Pass(args.r2_m, mixed))

\* The phase-2 loop is over: return.
MixedReturn ==
    /\ pc = "phase2"
    /\ mixed.j >= mixed.n2
    /\ MixedMoves(MixedExit(mixed))

\* A call of solve_r2_for_equal_interest, up to the first bracket.
CallSolve ==
    /\ Callable
    /\ \E P \in Principals, n \in Terms, r_fixed_m \in Rates,
          r1_m \in Rates, m1 \in Phase1Months :
          \E fr \in {SolveEnter(P, n, r_fixed_m, r1_m, m1)} :
             /\ fn' = "solve_r2_for_equal_interest"
             /\ args' = [P |-> P, n |-> n, r_fixed_m |-> r_fixed_m,
                         r1_m |-> r1_m, m1 |-> m1]
             /\ solve' = fr
             /\ pc' = PcOf(fr.status)
             /\ ret' = RetOf(fr, fr.ret)
    /\ UNCHANGED <<sched, mixed>>

\* What a step of solve_r2_for_equal_interest leaves behind.
SolveMoves(fr) ==
    /\ solve' = fr
    /\ pc' = PcOf(fr.status)
    /\ ret' = RetOf(fr, fr.ret)
    /\ UNCHANGED <<fn, args, sched, mixed>>

\* One pass of the loop that widens the bracket.
SolveExpandStep ==
    /\ pc = "expand"
    /\ SameSign(solve) /\ solve.attempts < MaxAttempts
    /\ SolveMoves(SolveExpandPass(args.P, args.n, args.r1_m, args.m1, solve))

\* The widening is over: no bracket, or on to the bisection.
SolveBracketStep ==
    /\ pc = "expand"
    /\ ~ (SameSign(solve) /\ solve.attempts < MaxAttempts)
    /\ SolveMoves(SolveBracket(args.P, args.n, args.r1_m, args.m1, solve))

\* One pass of the bisection.
SolveBisectStep ==
    /\ pc = "bisect"
    /\ solve.it < MaxBisections
    /\ SolveMoves(SolveBisectPass(args.P, args.n, args.r1_m, args.m1, solve))

\* The bisection is over: return the midpoint.
SolveReturn ==
    /\ \/ pc = "break"
       \/ pc = "bisect" /\ solve.it >= MaxBisections
    /\ SolveMoves(SolveExit(args.P, args.n, args.r1_m, args.m1, solve))

Init ==
    /\ pc = "idle"
    /\ fn = "none"
    /\ args = [P |-> FZero]
    /\ sched = NoSched
    /\ mixed = NoMixed
    /\ solve = NoSolve
    /\ ret = <<>>

Next ==
    \/ CallSchedule
    \/ ScheduleStep
    \/ CallMixed
    \/ MixedPhase1Step
    \/ MixedSwitchStep
    \/ MixedPhase2Step
    \/ MixedReturn
    \/ CallSolve
    \/ SolveExpandStep
    \/ SolveBracketStep
    \/ SolveBisectStep
    \/ SolveReturn

Spec == Init /\ [][Next]_vars

\* ------------------------------------------- the ratios of the investment
\* Lines 1176-1242 of the investment tab: the simple return r_simple, the
\* headline compound-equivalent rate r_comp and the table of comp_equiv per
\* year.  A Python number is a float, the float nan, or a complex number;
\* of a complex number the model keeps the kind only.
Real(v) == [kind |-> "float", v |-> v]

NaN == [kind |-> "nan", v |-> FZero]

Complex == [kind |-> "complex", v |-> FZero]

RECURSIVE ISqrtFrom(_, _, _)
\* The largest q' >= q, adding bits from `bit` down, with q' * q' <= k.
ISqrtFrom(k, q, bit) ==
    IF bit = 0 THEN q
    ELSE IF (q + bit) * (q + bit) <= k THEN ISqrtFrom(k, q + bit, bit \div 2)
    ELSE ISqrtFrom(k, q, bit \div 2)

\* The square root of k * 2^x (x even), q being the integer square root of
\* k: a sticky bit below q stands for what is left of k.
SqrtRound(k, q, x) ==
    RoundTo(Prec, 2 * q + (IF q * q = k THEN 0 ELSE 1), (x \div 2) - 1)

\* The square root of k * 2^x for x even and k of 2 * Prec + 4 digits or
\* more.
SqrtShifted(k, x) == SqrtRound(k, ISqrtFrom(k, 0, 2^(Prec + 3)), x)

\* a ** 0.5 for a float a > 0, rounded to nearest.
FSqrt(a) ==
    IF (a.e - (Prec + 4)) % 2 = 0
    THEN SqrtShifted(a.m * 2^(Prec + 4), a.e - (Prec + 4))
    ELSE SqrtShifted(a.m * 2^(Prec + 5), a.e - (Prec + 5))

\* base ** x of Python floats, for the exponents 1.0 and 0.5 the model
\* hands it: a negative base with an exponent that is not whole gives a
\* complex number, 0.0 ** x is 0.0 for x > 0.
FPow(base, x) ==
    IF x = FOne THEN Real(base)
    ELSE IF base = FZero THEN Real(FZero)
    ELSE IF FLt(base, FZero) THEN Complex
    ELSE Real(FSqrt(base))

\* z - 1: a float for a float, else a number of the kind of z.
MinusOne(z) == IF z.kind = "float" THEN Real(FSub(z.v, FOne)) ELSE z

\* Lines 1183 and 1236: 1 + n * r
CompBase(r, n) == FAdd(FOne, FMul(FFromInt(n), r))

\* Lines 1183 and 1237: base ** (1 / n) - 1
CompRate(base, n) == MinusOne(FPow(base, FDiv(FOne, FFromInt(n))))

\* r_simple with the test of line 1182 as aportacion_total < 0.
r_simple_strict(cashflow_anual, aportacion_total) ==
    IF FLt(aportacion_total, FZero) THEN Ok(FZero)
    ELSE TrueDiv(cashflow_anual, aportacion_total)

\* Line 1182: the simple return, or the exception of the division.
r_simple(cashflow_anual, aportacion_total) ==
    IF FLe(aportacion_total, FZero) THEN Ok(FZero)
    ELSE TrueDiv(cashflow_anual, aportacion_total)

\* Line 1183: the headline compound-equivalent rate.
r_comp(horizonte_anios, r) ==
    CompRate(CompBase(r, horizonte_anios), horizonte_anios)

\* Lines 1235-1237: the compound-equivalent rate of the table.
comp_equiv(r, n) ==
    IF FLt(FZero, CompBase(r, n)) THEN CompRate(CompBase(r, n), n) ELSE NaN

\* Annual cash flows: income less expenses, of either sign.
Cashflows ==
    {FFromInt(-4), FFromInt(-3), FFromInt(-2), FFromInt(-1), FZero,
     FFromInt(1), FFromInt(3)}

\* Contributions; the sum of line 1020 is positive, 0 and -1 are the values
\* the test of line 1182 is there for.
Contributions == {FFromInt(-1), FZero, FFromInt(1), FFromInt(4)}

\* Lines 1177-1180: the horizon in years, a whole number from 1 on; 1 and 2
\* give the exponents 1.0 and 0.5.
Horizons == {1, 2}

\* The ratios are computed from a cash flow, a contribution and a horizon.
InitRatios ==
    /\ pc = "r_simple"
    /\ fn = "ratios"
    /\ \E c \in Cashflows, a \in Contributions, h \in Horizons :
          args = [cashflow_anual |-> c, aportacion_total |-> a,
                  horizonte_anios |-> h]
    /\ sched = NoSched
    /\ mixed = NoMixed
    /\ solve = NoSolve
    /\ ret = <<>>

\* Line 1182.
RSimpleStep ==
    /\ pc = "r_simple"
    /\ \E q \in {r_simple(args.cashflow_anual, args.aportacion_total)} :
          IF q.status = "ok"
          THEN pc' = "r_comp" /\ ret' = [r_simple |-> q.v]
          ELSE pc' = "raised" /\ ret' = q.status
    /\ UNCHANGED <<fn, args, sched, mixed, solve>>

\* Line 1183.
RCompStep ==
    /\ pc = "r_comp"
    /\ pc' = "table"
    /\ ret' = [r_simple |-> ret.r_simple,
               r_comp   |-> r_comp(args.horizonte_anios, ret.r_simple),
               table    |-> <<>>]
    /\ UNCHANGED <<fn, args, sched, mixed, solve>>

\* Line 1241: the entry of the next year of the table.
TableStep ==
    /\ pc = "table"
    /\ Len(ret.table) < args.horizonte_anios
    /\ ret' = [ret EXCEPT !.table =
                  Append(@, comp_equiv(ret.r_simple, Len(ret.table) + 1))]
    /\ UNCHANGED <<pc, fn, args, sched, mixed, solve>>

\* Lines 1238-1242: the table is complete.
TableDone ==
    /\ pc = "table"
    /\ Len(ret.table) = args.horizonte_anios
    /\ pc' = "done"
    /\ UNCHANGED <<fn, args, sched, mixed, solve, ret>>

NextRatios ==
    \/ RSimpleStep
    \/ RCompStep
    \/ TableStep
    \/ TableDone

SpecRatios == InitRatios /\ [][NextRatios]_vars

\* ------------------------------------------------------------ the simulator
\* Line 421.
n_months(years) == years * 12

\* r_monthly with line 422 leaving the annual rate undivided.
r_monthly_annual(annual_rate_pct) == FDiv(annual_rate_pct, WFromInt(100))

\* Line 422.
r_monthly(annual_rate_pct) ==
    FDiv(FDiv(annual_rate_pct, WFromInt(100)), WFromInt(12))

\* Amounts to finance typed into the form (line 405), in euros.
SimPrincipals == {WFromInt(100000), WFromInt(150000)}

\* Terms in years of the slider (line 410).
SimYears == {1, 20}

\* Annual rates in percent typed into the form (line 412).
SimRates == {FZero, WFromInt(3)}

\* Lines 402-419: the form holds an amount, a term and a rate.
InitSim ==
    /\ pc = "form"
    /\ fn = "simulador"
    /\ \E p \in SimPrincipals, y \in SimYears, t \in SimRates :
          args = [principal |-> p, years |-> y, annual_rate_pct |-> t,
                  P |-> p, r_m |-> r_monthly(t), n |-> n_months(y)]
    /\ sched = NoSched
    /\ mixed = NoMixed
    /\ solve = NoSolve
    /\ ret = <<>>

\* Line 424: the call of amortization_schedule, up to the first pass of its
\* loop.
SimCall ==
    /\ pc = "form"
    /\ \E fr \in {ScheduleEnter(args.P, args.r_m, args.n)} :
          /\ sched' = fr
          /\ pc' = PcOf(fr.status)
          /\ ret' = RetOf(fr, fr.rows)
    /\ UNCHANGED <<fn, args, mixed, solve>>

\* Lines 425-432: an empty schedule stops the page; otherwise the total of
\* the column "Intereses" and the payment of the first row are shown.
SimMetrics ==
    /\ pc = "done"
    /\ fn = "simulador"
    /\ IF ret = <<>>
       THEN pc' = "stopped" /\ ret' = ret
       ELSE /\ pc' = "shown"
            /\ ret' = [total_interest  |-> SeriesSum(Intereses(ret)),
                       monthly_payment |-> ret[1].Cuota]
    /\ UNCHANGED <<fn, args, sched, mixed, solve>>

NextSim ==
    \/ SimCall
    \/ ScheduleStep
    \/ SimMetrics

SpecSim == InitSim /\ [][NextSim]_vars

\* ---------------------------------------------- prima_orientativa_ing
\* Line 294: the capitals of the columns, in euros.
CAPITALS_ING ==
    <<50000, 75000, 100000, 125000, 150000, 175000, 200000, 225000, 250000,
      275000, 300000, 325000, 350000, 375000, 400000>>

\* Lines 296-340: the premiums of each age, one per capital, in cents: the
\* premium 9.41 of the source is the float of 941 / 100.
PREMIAS_ING ==
    18 :> <<941, 1381, 1864, 2288, 2743, 3196, 3650, 4125,
            4583, 5042, 5456, 5919, 6374, 6827, 7281>> @@
    19 :> <<925, 1388, 1860, 2313, 2775, 3238, 3700, 4163,
            4626, 5088, 5539, 6013, 6476, 6939, 7379>> @@
    20 :> <<916, 1373, 1831, 2289, 2769, 3205, 3670, 4120,
            4578, 5036, 5474, 5951, 6409, 6867, 7277>> @@
    21 :> <<920, 1378, 1838, 2298, 2775, 3217, 3683, 4136,
            4596, 5056, 5499, 5974, 6434, 6894, 7315>> @@
    22 :> <<923, 1384, 1845, 2307, 2782, 3230, 3696, 4152,
            4614, 5075, 5525, 5998, 6458, 6921, 7353>> @@
    23 :> <<927, 1389, 1852, 2316, 2788, 3242, 3708, 4169,
            4632, 5095, 5550, 6021, 6483, 6947, 7391>> @@
    24 :> <<930, 1395, 1860, 2325, 2795, 3255, 3721, 4185,
            4649, 5114, 5576, 6045, 6509, 6974, 7429>> @@
    25 :> <<934, 1400, 1867, 2334, 2801, 3267, 3734, 4201,
            4667, 5134, 5601, 6068, 6535, 7001, 7468>> @@
    26 :> <<927, 1390, 1860, 2318, 2783, 3246, 3704, 4168,
            4634, 5100, 5547, 6004, 6475, 6938, 7411>> @@
    27 :> <<921, 1381, 1854, 2301, 2764, 3225, 3674, 4136,
            4600, 5067, 5494, 5941, 6415, 6874, 7353>> @@
    28 :> <<914, 1371, 1847, 2285, 2746, 3204, 3644, 4104,
            4567, 5034, 5440, 5888, 6355, 6811, 7296>> @@
    29 :> <<908, 1362, 1841, 2269, 2727, 3182, 3613, 4072,
            4533, 5000, 5387, 5836, 6295, 6748, 7189>> @@
    30 :> <<901, 1352, 1834, 2253, 2709, 3160, 3583, 4036,
            4500, 4950, 5333, 5784, 6234, 6685, 7082>> @@
    31 :> <<929, 1395, 1903, 2324, 2781, 3259, 3704, 4171,
            4643, 5093, 5511, 5977, 6442, 6908, 7318>> @@
    32 :> <<958, 1439, 1971, 2394, 2854, 3357, 3826, 4307,
            4786, 5237, 5689, 6171, 6650, 7132, 7555>> @@
    33 :> <<986, 1482, 2040, 2464, 2928, 3456, 3948, 4443,
            4929, 5380, 5868, 6364, 6859, 7356, 7791>> @@
    34 :> <<1015, 1526, 2109, 2534, 3001, 3554, 4069, 4577,
            5072, 5523, 6046, 6557, 7067, 7579, 8026>> @@
    35 :> <<1043, 1565, 2180, 2609, 3169, 3652, 4187, 4711,
            5217, 5742, 6225, 6750, 7276, 7801, 8262>> @@
    36 :> <<1101, 1651, 2301, 2752, 3355, 3881, 4432, 4984,
            5503, 6056, 6587, 7138, 7681, 8234, 8742>> @@
    37 :> <<1158, 1737, 2422, 2895, 3540, 4109, 4676, 5256,
            5790, 6371, 6948, 7527, 8086, 8666, 9223>> @@
    38 :> <<1216, 1823, 2544, 3038, 3726, 4338, 4921, 5529,
            6077, 6655, 7310, 7915, 8490, 9097, 9704>> @@
    39 :> <<1273, 1909, 2665, 3181, 3912, 4567, 5165, 5801,
            6364, 6984, 7673, 8302, 8894, 9532, 10183>> @@
    40 :> <<1330, 1995, 2785, 3324, 4098, 4796, 5410, 6074,
            6648, 7313, 8036, 8689, 9303, 9966, 10661>> @@
    41 :> <<1504, 2257, 3145, 3760, 4616, 5400, 6091, 6841,
            7440, 8272, 9044, 9714, 10446, 11276, 12096>> @@
    42 :> <<1679, 2520, 3505, 4195, 5134, 6005, 6772, 7609,
            8232, 9231, 10051, 10738, 11589, 12586, 13531>> @@
    43 :> <<1853, 2783, 3866, 4632, 5651, 6609, 7454, 8376,
            9024, 10190, 11059, 11763, 12733, 13896, 14965>> @@
    44 :> <<2027, 3045, 4227, 5068, 6169, 7214, 8135, 9143,
            9816, 11151, 12068, 12788, 13876, 15206, 16300>> @@
    45 :> <<2202, 3303, 4588, 5504, 6687, 7818, 8817, 9909,
            11010, 12111, 13076, 14313, 15414, 16516, 17335>> @@
    46 :> <<2370, 3555, 4942, 5925, 7199, 8328, 9493, 10668,
            11852, 13026, 14074, 15371, 16555, 17740, 18656>> @@
    47 :> <<2537, 3807, 5295, 6346, 7712, 8838, 10168, 11427,
            12695, 13942, 15073, 16430, 17697, 18963, 19977>> @@
    48 :> <<2704, 4060, 5649, 6767, 8225, 9347, 10844, 12186,
            13563, 14858, 16071, 17489, 18839, 20187, 21299>> @@
    49 :> <<2872, 4312, 6003, 7188, 8738, 9857, 11521, 12945,
            14431, 15785, 17070, 18547, 19978, 21410, 22620>> @@
    50 :> <<3044, 4565, 6357, 7609, 9307, 10867, 12198, 13704,
            15219, 16713, 18069, 19603, 21118, 22634, 23941>> @@
    51 :> <<3569, 5352, 7356, 8921, 10755, 12661, 14114, 16064,
            17843, 19625, 20998, 23064, 24833, 26613, 27285>> @@
    52 :> <<4094, 6139, 8355, 10233, 12204, 14454, 16030, 18424,
            20466, 22536, 23926, 26526, 28548, 30592, 30628>> @@
    53 :> <<4618, 6927, 9354, 11544, 13652, 16248, 17946, 20783,
            23090, 25448, 26855, 29988, 32264, 34571, 33970>> @@
    54 :> <<5143, 7714, 10353, 12856, 15101, 18042, 19862, 23143,
            25713, 28309, 29784, 33450, 35979, 38549, 37315>> @@
    55 :> <<5667, 8501, 11353, 14168, 16545, 19835, 21778, 25503,
            28337, 31170, 32213, 36907, 39693, 42527, 42660>> @@
    56 :> <<5965, 8947, 12036, 14912, 17545, 20876, 23185, 26881,
            29824, 32806, 34141, 38787, 41771, 44753, 45575>> @@
    57 :> <<6262, 9394, 12718, 15656, 18545, 21917, 24592, 28260,
            31312, 34441, 36068, 40667, 43850, 46979, 48491>> @@
    58 :> <<6560, 9840, 13401, 16400, 19544, 22959, 25999, 29638,
            32799, 36075, 37995, 42547, 45929, 49205, 51406>> @@
    59 :> <<6857, 10286, 14083, 17143, 20544, 24000, 27256, 31017,
            34286, 37710, 39922, 44427, 48007, 51432, 54321>> @@
    60 :> <<7155, 10732, 14765, 17886, 21544, 25041, 28314, 32195,
            35773, 39350, 41854, 46504, 50082, 53659, 57236>>

\* The float of the premium written with its cents.
Premium(cents) == WRatio(cents, 100)

RECURSIVE SortedFrom(_, _)
\* The whole numbers of S from k on, in rising order.
SortedFrom(S, k) ==
    IF S = {} THEN <<>>
    ELSE IF k \in S THEN <<k>> \o SortedFrom(S \ {k}, k + 1)
    ELSE SortedFrom(S, k + 1)

\* Line 342: the index of PRIMA_ING_DF after sort_index().
Edad == SortedFrom(DOMAIN PREMIAS_ING, 0)

\* Line 352: ages = df.index.to_numpy(dtype=float)
ages == [i \in DOMAIN Edad |-> WFromInt(Edad[i])]

\* Line 353: caps = np.array(df.columns, dtype=float)
caps == [i \in DOMAIN CAPITALS_ING |-> WFromInt(CAPITALS_ING[i])]

\* xs.min() of numpy: an empty array raises.
ArrMin(xs) ==
    IF xs = <<>> THEN Raise("ValueError")
    ELSE Ok(xs[CHOOSE i \in DOMAIN xs : \A j \in DOMAIN xs : FLe(xs[i], xs[j])])

\* xs.max() of numpy: an empty array raises.
ArrMax(xs) ==
    IF xs = <<>> THEN Raise("ValueError")
    ELSE Ok(xs[CHOOSE i \in DOMAIN xs : \A j \in DOMAIN xs : FLe(xs[j], xs[i])])

\* xs[xs >= x]
AtLeast(xs, x) == SelectSeq(xs, LAMBDA b : FLe(x, b))

\* xs[xs <= x]
AtMost(xs, x) == SelectSeq(xs, LAMBDA b : FLe(b, x))

\* The pair <<x0, x1>> chosen, or the exception raised on the way.
Pair(x0, x1) == [status |-> "ok", x0 |-> x0, x1 |-> x1]

\* Lines 360-361 (and 368-369): x1 is taken first, then x0.
PairBetween(lo, hi) ==
    IF hi.status # "ok" THEN [Pair(FZero, FZero) EXCEPT !.status = hi.status]
    ELSE IF lo.status # "ok"
    THEN [Pair(FZero, FZero) EXCEPT !.status = lo.status]
    ELSE Pair(lo.v, hi.v)

\* BreakpointPair with the last breakpoint taken twice at or above the
\* maximum.
BreakpointPairFlat(xs, x) ==
    IF FLe(x, ArrMin(xs).v) THEN Pair(xs[1], xs[2])
    ELSE IF FLe(ArrMax(xs).v, x) THEN Pair(xs[Len(xs)], xs[Len(xs)])
    ELSE PairBetween(ArrMax(AtMost(xs, x)), ArrMin(AtLeast(xs, x)))

\* Lines 355-361 (and 363-369): the two breakpoints of xs to interpolate x
\* between.
BreakpointPair(xs, x) ==
    IF FLe(x, ArrMin(xs).v) THEN Pair(xs[1], xs[2])
    ELSE IF FLe(ArrMax(xs).v, x) THEN Pair(xs[Len(xs) - 1], xs[Len(xs)])
    ELSE PairBetween(ArrMax(AtMost(xs, x)), ArrMin(AtLeast(xs, x)))

\* int(a) of a float: towards zero.
FInt(a) ==
    IF a = FZero THEN 0
    ELSE IF a.e >= 0 THEN a.s * NToInt(NShl(a.m, a.e))
    ELSE a.s * NToInt(NShr(a.m, -a.e))

\* The column of the capital c, 0 if there is none.
ColumnOf(c) ==
    IF \E i \in DOMAIN CAPITALS_ING : CAPITALS_ING[i] = c
    THEN CHOOSE i \in DOMAIN CAPITALS_ING : CAPITALS_ING[i] = c
    ELSE 0

\* df.loc[a, c] with the column of c found: a cell that is not there raises.
LocAt(a, col) ==
    IF a \in DOMAIN PREMIAS_ING /\ col # 0
    THEN Ok(Premium(PREMIAS_ING[a][col]))
    ELSE Raise("KeyError")

\* Lines 371-374: float(df.loc[int(a), int(c)])
Loc(a, c) == LocAt(FInt(a), ColumnOf(FInt(c)))

\* A float that is no number: what a division by 0.0 of numpy floats gives.
NotANumber == [status |-> "nan", v |-> FZero]

\* a / b of numpy floats: no exception.
NpTrueDiv(a, b) == IF b = FZero THEN NotANumber ELSE Ok(FDiv(a, b))

\* LerpAdd with line 348 adding the quotient twice.
LerpAddTwice(y0, q) ==
    IF q.status = "ok" THEN Ok(FAdd(FAdd(y0, q.v), q.v)) ELSE q

\* y0 + q for the quotient q of line 348.
LerpAdd(y0, q) == IF q.status = "ok" THEN Ok(FAdd(y0, q.v)) ELSE q

\* _lerp without the test of line 346.
_lerp_undivided(x0, x1, y0, y1, x) ==
    LerpAdd(y0, NpTrueDiv(FMul(FSub(y1, y0), FSub(x, x0)), FSub(x1, x0)))

\* Lines 345-348.
_lerp(x0, x1, y0, y1, x) ==
    IF x0 = x1 THEN Ok(y0)
    ELSE LerpAdd(y0, NpTrueDiv(FMul(FSub(y1, y0), FSub(x, x0)), FSub(x1, x0)))

\* Line 378: _lerp of the two values of line 376-377, which are no numbers
\* only if a division gave none.
LerpRows(a0, a1, v0, v1, edad) ==
    IF v0.status = "ok" /\ v1.status = "ok" THEN _lerp(a0, a1, v0.v, v1.v, edad)
    ELSE IF a0 = a1 THEN v0
    ELSE NotANumber

\* The locals of prima_orientativa_ing before its first line.
NoPrima ==
    [a0 |-> FZero, a1 |-> FZero, c0 |-> FZero, c1 |-> FZero,
     v_a0c0 |-> FZero, v_a0c1 |-> FZero, v_a1c0 |-> FZero, v_a1c1 |-> FZero,
     v0 |-> Ok(FZero), v1 |-> Ok(FZero), v |-> Ok(FZero)]

\* The greatest binary64 float below the whole number k > 0, k no power
\* of 2.
JustBelow(k) == [WFromInt(k) EXCEPT !.m = NSub(@, <<1>>)]

\* Ages handed to the function: the tabulated ones, ages on either side of
\* the table and ages between two rows, the float next to a row included.
Edades ==
    {WFromInt(a) : a \in DOMAIN PREMIAS_ING}
        \cup {WFromInt(1), WFromInt(17), WFromInt(61), WFromInt(99),
              WRatio(37, 2), WRatio(239, 4), JustBelow(19), JustBelow(60)}

\* Capitals handed to the function: the tabulated ones, capitals on either
\* side of the table and capitals between two columns, the float next to a
\* column included.
Capitales ==
    {caps[i] : i \in DOMAIN caps}
        \cup {WFromInt(1), WFromInt(5000), WFromInt(60000), WFromInt(387500),
              WFromInt(405000), WFromInt(1000000), WRatio(1250001, 10),
              JustBelow(75000), JustBelow(400000)}

\* Line 656: a call of prima_orientativa_ing; its locals are kept in ret
\* until it returns.
InitPrima ==
    /\ pc = "ages"
    /\ fn = "prima_orientativa_ing"
    /\ \E edad \in Edades, capital \in Capitales :
          args = [edad |-> edad, capital |-> capital]
    /\ sched = NoSched
    /\ mixed = NoMixed
    /\ solve = NoSolve
    /\ ret = NoPrima

\* Lines 355-361: the pair of ages.
PrimaAges ==
    /\ pc = "ages"
    /\ \E p \in {BreakpointPair(ages, args.edad)} :
          IF p.status = "ok"
          THEN pc' = "caps" /\ ret' = [ret EXCEPT !.a0 = p.x0, !.a1 = p.x1]
          ELSE pc' = "raised" /\ ret' = p.status
    /\ UNCHANGED <<fn, args, sched, mixed, solve>>

\* Lines 363-369: the pair of capitals.
PrimaCaps ==
    /\ pc = "caps"
    /\ \E p \in {BreakpointPair(caps, args.capital)} :
          IF p.status = "ok"
          THEN pc' = "corners" /\ ret' = [ret EXCEPT !.c0 = p.x0, !.c1 = p.x1]
          ELSE pc' = "raised" /\ ret' = p.status
    /\ UNCHANGED <<fn, args, sched, mixed, solve>>

\* Lines 371-374: the four corners.
PrimaCorners ==
    /\ pc = "corners"
    /\ \E q \in {<<Loc(ret.a0, ret.c0), Loc(ret.a0, ret.c1),
                   Loc(ret.a1, ret.c0), Loc(ret.a1, ret.c1)>>} :
          IF \A i \in 1 .. 4 : q[i].status = "ok"
          THEN /\ pc' = "lerp_v0"
               /\ ret' = [ret EXCEPT !.v_a0c0 = q[1].v, !.v_a0c1 = q[2].v,
                                     !.v_a1c0 = q[3].v, !.v_a1c1 = q[4].v]
          ELSE pc' = "raised" /\ ret' = "KeyError"
    /\ UNCHANGED <<fn, args, sched, mixed, solve>>

\* Line 376.
PrimaLerpV0 ==
    /\ pc = "lerp_v0"
    /\ pc' = "lerp_v1"
    /\ ret' = [ret EXCEPT !.v0 = _lerp(ret.c0, ret.c1, ret.v_a0c0, ret.v_a0c1,
                                       args.capital)]
    /\ UNCHANGED <<fn, args, sched, mixed, solve>>

\* Line 377.
PrimaLerpV1 ==
    /\ pc = "lerp_v1"
    /\ pc' = "lerp_v"
    /\ ret' = [ret EXCEPT !.v1 = _lerp(ret.c0, ret.c1, ret.v_a1c0, ret.v_a1c1,
                                       args.capital)]
    /\ UNCHANGED <<fn, args, sched, mixed, solve>>

\* Lines 378-379: the value returned.
PrimaLerpV ==
    /\ pc = "lerp_v"
    /\ pc' = "done"
    /\ ret' = [ret EXCEPT !.v = LerpRows(ret.a0, ret.a1, ret.v0, ret.v1,
                                         args.edad)]
    /\ UNCHANGED <<fn, args, sched, mixed, solve>>

NextPrima ==
    \/ PrimaAges
    \/ PrimaCaps
    \/ PrimaCorners
    \/ PrimaLerpV0
    \/ PrimaLerpV1
    \/ PrimaLerpV

SpecPrima == InitPrima /\ [][NextPrima]_vars

\* ------------------------------------- the fixed loan against the mixed
\* Lines 715 and 750: the monthly rate of an annual rate in percent.
rate_m(pct) == FDiv(FDiv(pct, WFromInt(100)), WFromInt(12))

\* Amounts to finance typed into the form (line 696), in euros.
CmpPrincipals == {WFromInt(100000)}

\* Terms in years of the slider (line 701).
CmpYears == {1, 2}

\* Annual rates of the fixed loan, in percent (line 703).
CmpFixedRates == {WFromInt(3)}

\* Annual rates of phase 1 of the mixed loan, in percent (line 735).
CmpPhase1Rates == {FZero, WRatio(5, 2), WFromInt(30)}

\* Lines 693-738: the two forms hold an amount, a term, the rate of the
\* fixed loan, the year of the change (line 732: at most the term) and the
\* rate of phase 1; lines 714-715 and 749-750 derive the arguments.
InitCmp ==
    /\ pc = "forms"
    /\ fn = "comparador"
    /\ \E P_cmp \in CmpPrincipals, Y_cmp \in CmpYears,
          Rfix_cmp \in CmpFixedRates, R1_mixed \in CmpPhase1Rates :
          \E Y_change \in 0 .. Y_cmp :
             args = [P |-> P_cmp, n |-> Y_cmp * 12,
                     r_fixed_m |-> rate_m(Rfix_cmp),
                     r1_m |-> rate_m(R1_mixed), m1 |-> Y_change * 12,
                     r2_m |-> FZero]
    /\ sched = NoSched
    /\ mixed = NoMixed
    /\ solve = NoSolve
    /\ ret = <<>>

\* Lines 751-753: the call of solve_r2_for_equal_interest, up to the first
\* bracket.
CmpSolve ==
    /\ pc = "forms"
    /\ \E fr \in {SolveEnter(args.P, args.n, args.r_fixed_m, args.r1_m,
                             args.m1)} :
          /\ solve' = fr
          /\ pc' = PcOf(fr.status)
          /\ ret' = RetOf(fr, fr.ret)
    /\ UNCHANGED <<fn, args, sched, mixed>>

\* Line 837: r2_for_table
r2_for_table(r2_m_solution) ==
    IF r2_m_solution.none THEN FZero ELSE r2_m_solution.v

\* Lines 837-840: the call of mixed_total_interest at the rate found, up to
\* the first pass of its loops.
CmpTable ==
    /\ pc = "done"
    /\ fn = "comparador"
    /\ mixed.status = "none"
    /\ \E fr \in {MixedEnter(args.P, args.n, args.r1_m, args.m1)} :
          /\ args' = [args EXCEPT !.r2_m = r2_for_table(solve.ret[1])]
          /\ mixed' = fr
          /\ pc' = PcOf(fr.status)
          /\ ret' = RetOf(fr, fr.ret)
    /\ UNCHANGED <<fn, sched, solve>>

NextCmp ==
    \/ CmpSolve
    \/ SolveExpandStep
    \/ SolveBracketStep
    \/ SolveBisectStep
    \/ SolveReturn
    \/ CmpTable
    \/ MixedPhase1Step
    \/ MixedSwitchStep
    \/ MixedPhase2Step
    \/ MixedReturn

SpecCmp == InitCmp /\ [][NextCmp]_vars

\* ------------------------------------------------------------- the claims
\* A call of amortization_schedule has ended, by a return or an exception.
ScheduleEnded == fn = "amortization_schedule" /\ pc \in {"done", "raised"}

\* The call under way or ended has a principal and a term above zero.
LoanGiven == FLt(FZero, args.P) /\ args.n > 0

\* C1: for every P > 0, n > 0 and r >= 0, amortization_schedule(P, r, n)
\* returns exactly n rows, with the months 1..n in order, and the ending
\* balance of the last row is exactly 0.
C1_RowsOfEveryLoan ==
    (ScheduleEnded /\ LoanGiven)
        => /\ pc = "done"
           /\ Len(ret) = args.n
           /\ \A k \in 1 .. args.n : ret[k].Mes = k
           /\ ret[args.n].SaldoFinal = FZero

\* The column "Amortización" of a schedule.
Amortizacion(rows) == [k \in 1 .. Len(rows) |-> rows[k].Amortizacion]

\* Relative slack granted to a sum of a few floats: 16 units of 2^-Prec.
RoundingSlack == [m |-> 2^(Prec - 1), e |-> -(2 * Prec - 5)]

\* a equals b up to the rounding of a few operations.
WithinRounding(a, b) ==
    FLe(FAbs(FSub(a, b)), FMul(FAbs(b), RoundingSlack))

\* C2: for every P > 0, n > 0 and r >= 0, the principal portions of the n
\* rows of amortization_schedule(P, r, n) sum to P (up to floating-point
\* rounding).
C2_PrincipalSumsToP ==
    (ScheduleEnded /\ LoanGiven)
        => /\ pc = "done"
           /\ WithinRounding(SeriesSum(Amortizacion(ret)), args.P)

\* The ending balances written to the rows are never negative and never
\* increase, the first being at most P.
ReportedBalancesFall ==
    \A k \in 1 .. Len(sched.rows) :
        /\ FLe(FZero, sched.rows[k].SaldoFinal)
        /\ FLe(sched.rows[k].SaldoFinal,
               IF k = 1 THEN args.P ELSE sched.rows[k - 1].SaldoFinal)

\* C3 as claimed: for every P > 0, n > 0 and r >= 0, the ending balances of
\* amortization_schedule are never negative and never increase (the first is
\* at most P), the balance carried internally from month to month included.
C3_InternalBalanceToo ==
    (fn = "amortization_schedule" /\ LoanGiven)
        => /\ ReportedBalancesFall
           /\ FLe(FZero, sched.balance)
           /\ FLe(sched.balance, args.P)

\* C3 as amended: for every P > 0, n > 0 and r >= 0, the ending balances
\* written to the rows of amortization_schedule (the values clamped by
\* max(.., 0.0)) are never negative and never increase from one row to the
\* next, the first being at most P; the balance carried internally can fall
\* below zero.
C3_ReportedBalances ==
    (fn = "amortization_schedule" /\ LoanGiven) => ReportedBalancesFall

\* A month left a balance below zero behind it, and its row shows 0.
C3_Witness ==
    /\ fn = "amortization_schedule"
    /\ LoanGiven
    /\ sched.rows # <<>>
    /\ FLt(sched.balance, FZero)
    /\ sched.rows[Len(sched.rows)].SaldoFinal = FZero

\* C4: amortization_schedule(P, r, n) returns the empty schedule, without
\* raising, whenever P <= 0 or n <= 0, and a non-empty schedule whenever
\* P > 0 and n > 0.
C4_EmptyOnlyWithoutLoan ==
    ScheduleEnded
        => /\ pc = "done"
           /\ (ret = <<>>) <=> ~ LoanGiven

\* C5: with a monthly rate of 0 (P > 0, n > 0) every row of
\* amortization_schedule has interest 0, every row but the last has the
\* payment P / n, and the payment of the last row is the balance that was
\* left before it.
C5_ZeroRateRows ==
    [][(fn = "amortization_schedule" /\ pc = "loop" /\ args.r_m = FZero)
          => /\ Len(sched'.rows) = sched.m + 1
             /\ sched'.rows[sched.m + 1].Intereses = FZero
             /\ sched'.rows[sched.m + 1].Cuota =
                    IF sched.m + 1 < args.n
                    THEN FDiv(args.P, FFromInt(args.n))
                    ELSE sched.balance]_vars

\* A schedule at rate 0 whose last payment differs from the level payment.
C5_Witness ==
    /\ ScheduleEnded
    /\ pc = "done"
    /\ args.r_m = FZero
    /\ Len(ret) = args.n
    /\ args.n >= 2
    /\ ret[args.n].Intereses = FZero
    /\ ret[args.n].Cuota # ret[1].Cuota

\* A call of mixed_total_interest has ended, by a return or an exception.
MixedEnded == fn = "mixed_total_interest" /\ pc \in {"done", "raised"}

\* The interest of the fixed loan of P at rate r_m over n months is x: the
\* schedule is returned and the sum of its column "Intereses" is x.
FixedInterestIs(P, r_m, n, x) ==
    /\ amortization_schedule(P, r_m, n).status = "returned"
    /\ SeriesSum(Intereses(amortization_schedule(P, r_m, n).rows)) = x

\* C6: when phase 1 spans the full term (m1 = n, P > 0),
\* mixed_total_interest(P, n, r, n, r2) returns phase-2 interest 0 and
\* balance 0 for every r2, and its total interest equals its phase-1
\* interest, which equals the sum of the interest column of
\* amortization_schedule(P, r, n).
C6_FullTermPhase1 ==
    (MixedEnded /\ LoanGiven /\ args.m1 = args.n)
        => /\ pc = "done"
           /\ ret[3] = FZero
           /\ ret[4] = FZero
           /\ ret[1] = ret[2]
           /\ FixedInterestIs(args.P, args.r1_m, args.n, ret[2])

\* C7: on every return path of mixed_total_interest (guard, no phase 2, two
\* phases) the first result, the total interest, equals the sum of the
\* second and the third, the interest of phase 1 plus that of phase 2.
C7_TotalIsSumOfPhases ==
    (fn = "mixed_total_interest" /\ pc = "done")
        => ret[1] = FAdd(ret[2], ret[3])

\* A loan of two phases returned with interest in both.
C7_Witness ==
    /\ fn = "mixed_total_interest"
    /\ pc = "done"
    /\ 0 < args.m1
    /\ args.m1 < args.n
    /\ FLt(FZero, ret[2])
    /\ FLt(FZero, ret[3])
    /\ FLt(ret[2], ret[1])

\* The guard of line 206 holds of the arguments.
MixedGuarded ==
    FLe(args.P, FZero) \/ args.n <= 0 \/ args.m1 < 0 \/ args.m1 > args.n

\* C8: mixed_total_interest returns (0, 0, 0, P), all interests zero and
\* the balance after phase 1 equal to the principal passed in, whenever
\* P <= 0, n <= 0, m1 < 0 or m1 > n, and never raises for those inputs.
C8_GuardResult ==
    (fn = "mixed_total_interest" /\ MixedGuarded)
        => /\ pc = "done"
           /\ ret = <<FZero, FZero, FZero, args.P>>

\* A loan with a phase 1 longer than its term, at a rate that makes the
\* level payment raise, was answered with (0, 0, 0, P).
C8_Witness ==
    /\ fn = "mixed_total_interest"
    /\ pc = "done"
    /\ LoanGiven
    /\ args.m1 > args.n
    /\ args.r1_m = TinyRate
    /\ ret = <<FZero, FZero, FZero, args.P>>

\* A call of solve_r2_for_equal_interest has ended, by a return or an
\* exception.
SolveEnded == fn = "solve_r2_for_equal_interest" /\ pc \in {"done", "raised"}

\* C9: solve_r2_for_equal_interest (P > 0, n > 0) returns None for the rate
\* in exactly two cases: m1 >= n, or f(0) and f(hi) still have the same strict sign after
\* hi, starting from 2/12, was multiplied by 1.5 twenty times; in every
\* other case it returns a numeric rate, a solution of 0 % included.
C9_NoneInTwoCases ==
    (SolveEnded /\ LoanGiven)
        => /\ pc = "done"
           /\ ret[1].none <=>
                  \/ args.m1 >= args.n
                  \/ solve.attempts = MaxAttempts /\ SameSign(solve)

\* C10: when m1 >= n (P > 0, n > 0) solve_r2_for_equal_interest returns None
\* for the rate, phase-2 interest 0 and a target interest equal to the total
\* interest of amortization_schedule(P, r_fixed_m, n), without evaluating
\* any bracket or bisection step.
C10_NoPhase2ToSolve ==
    (SolveEnded /\ LoanGiven /\ args.m1 >= args.n)
        => /\ pc = "done"
           /\ ret[1] = None
           /\ ret[5] = FZero
           /\ FixedInterestIs(args.P, args.r_fixed_m, args.n, ret[2])
           /\ solve.hi = FZero /\ solve.attempts = 0 /\ solve.it = 0

\* C11: no core operation raises for a non-positive principal or term:
\* amortization_schedule returns the empty schedule, mixed_total_interest
\* returns the identity result (0, 0, 0, P), and
\* solve_r2_for_equal_interest returns a sentinel result (no rate) rather
\* than throwing when P <= 0 or n <= 0.
C11_NoLoanNeverRaises ==
    (fn # "none" /\ pc \in {"done", "raised"} /\ ~ LoanGiven)
        => /\ pc = "done"
           /\ fn = "amortization_schedule" => ret = <<>>
           /\ fn = "mixed_total_interest"
                  => ret = <<FZero, FZero, FZero, args.P>>
           /\ fn = "solve_r2_for_equal_interest" => ret[1] = None

\* The passes solve_r2_for_equal_interest can still make from the position
\* p with the locals fr: the widenings and bisections left, then the exit.
SolveStepsLeft(p, fr) ==
    IF p = "expand"
    THEN (MaxAttempts - fr.attempts) + MaxBisections + 3
    ELSE IF p = "bisect" THEN (MaxBisections - fr.it) + 2
    ELSE IF p = "break" THEN 1
    ELSE 0

\* f at the midpoint of the bracket held in the locals of the call under way.
FMid ==
    SolveF(args.P, args.n, args.r1_m, args.m1, solve.target,
           Midpoint(solve.lo, solve.hi))

\* C13: every call of solve_r2_for_equal_interest terminates: the loop that
\* widens the bracket runs at most 20 times and the bisection at most 80
\* times, whatever the inputs and the signs of f, and the bisection stops as
\* soon as |f(mid)| < 1e-8.  Every step of a call under way brings it
\* strictly nearer to its end, the counters stay within 20 and 80, and a
\* bisection pass that finds |f(mid)| < 1e-8 is the last one.
C13_SolveTerminates ==
    [][(fn = "solve_r2_for_equal_interest"
            /\ pc \in {"expand", "bisect", "break"})
          => /\ SolveStepsLeft(pc', solve') < SolveStepsLeft(pc, solve)
             /\ SolveStepsLeft(pc', solve') >= 0
             /\ solve'.attempts <= MaxAttempts
             /\ solve'.it <= MaxBisections
             /\ (pc = "expand" /\ pc' = "expand")
                    => solve'.attempts = solve.attempts + 1
             /\ (pc = "bisect" /\ pc' \in {"bisect", "break"})
                    => solve'.it = solve.it + 1
             /\ (pc = "bisect" /\ solve.it < MaxBisections
                     /\ FMid.status = "ok")
                    => (pc' = "break" <=> FLt(FAbs(FMid.v), Tolerance))
             /\ pc = "break" => pc' \in {"done", "raised"}]_vars

\* A call that widened its bracket and then used all 80 bisections.
C13_Witness ==
    /\ fn = "solve_r2_for_equal_interest"
    /\ pc = "done"
    /\ solve.attempts > 0
    /\ solve.it = MaxBisections
    /\ ~ ret[1].none

\* 1e-6, the distance the result is said to keep from the target.
Millionth == FRatio(1, 1000000)

\* The total interest of the mixed loan of the call under way at rate r2_m.
MixedTotalAt(r2_m) ==
    mixed_total_interest(args.P, args.n, args.r1_m, args.m1, r2_m).ret[1]

NewRow == sched'.rows[sched.m + 1]

\* What C19 says of the row of month sched.m + 1 apart from its last
\* sentence: a month before the last pays the payment computed before the
\* loop, its interest is balance * r and its principal payment - interest;
\* the last month pays the whole balance plus its interest.
RowAsDescribed ==
    /\ Len(sched'.rows) = sched.m + 1
    /\ sched'.payment = sched.payment
    /\ NewRow.Mes = sched.m + 1
    /\ NewRow.Intereses = FMul(sched.balance, args.r_m)
    /\ IF sched.m + 1 < args.n
       THEN /\ NewRow.Cuota = sched.payment
            /\ NewRow.Amortizacion = FSub(sched.payment, NewRow.Intereses)
       ELSE /\ NewRow.Amortizacion = sched.balance
            /\ NewRow.Cuota = FAdd(NewRow.Amortizacion, NewRow.Intereses)

\* C19 as claimed: in amortization_schedule (P > 0, n > 0) every row m < n
\* carries the same payment, computed once before the loop, with principal
\* = payment - interest and interest = balance * r; only row n is corrected
\* (principal = the remaining balance, payment = principal + interest), so
\* that in every row payment = interest + principal.
C19_PaymentSplitsExactly ==
    [][(fn = "amortization_schedule" /\ pc = "loop" /\ LoanGiven)
          => /\ RowAsDescribed
             /\ NewRow.Cuota = FAdd(NewRow.Intereses, NewRow.Amortizacion)]_vars

\* C19 as amended: the rows are as described, and payment = interest +
\* principal holds exactly in row n and at rate 0, and up to the rounding of
\* payment - interest in the rows before n.
C19_PaymentSplitsRounded ==
    [][(fn = "amortization_schedule" /\ pc = "loop" /\ LoanGiven)
          => /\ RowAsDescribed
             /\ WithinRounding(FAdd(NewRow.Intereses, NewRow.Amortizacion),
                               NewRow.Cuota)
             /\ (sched.m + 1 = args.n \/ args.r_m = FZero)
                    => NewRow.Cuota
                           = FAdd(NewRow.Intereses, NewRow.Amortizacion)]_vars

\* A schedule returned whose first row pays the level payment, which is not
\* the float sum of its interest and principal, and whose last row pays
\* another amount, the sum of its interest and the balance left.
C19_Witness ==
    /\ ScheduleEnded
    /\ pc = "done"
    /\ Len(ret) = args.n
    /\ args.n >= 2
    /\ ret[1].Cuota = sched.payment
    /\ ret[1].Cuota # FAdd(ret[1].Intereses, ret[1].Amortizacion)
    /\ ret[args.n].Cuota # sched.payment
    /\ ret[args.n].Cuota = FAdd(ret[args.n].Intereses, ret[args.n].Amortizacion)

RECURSIVE ScheduleAfter(_, _, _, _)
\* The locals of amortization_schedule k passes of its loop after frame fr.
ScheduleAfter(r_m, n, fr, k) ==
    IF k = 0 \/ fr.status # "loop" THEN fr
    ELSE ScheduleAfter(r_m, n, ScheduleRow(r_m, n, fr), k - 1)

\* The locals of amortization_schedule(P, r1_m, n), for the loan of the call
\* of mixed_total_interest under way, after the row of month m1.
Phase1Schedule ==
    ScheduleAfter(args.r1_m, args.n,
                  ScheduleEnter(args.P, args.r1_m, args.n), args.m1)

\* A call of mixed_total_interest for a loan, with 0 <= m1 < n, has returned.
TwoPhasesReturned ==
    /\ fn = "mixed_total_interest"
    /\ pc = "done"
    /\ LoanGiven
    /\ 0 <= args.m1
    /\ args.m1 < args.n

\* The phase-1 payment is the level payment at rate1 over the full term and
\* the phase-1 interest is the sum, from the first on, of the first m1
\* interest entries of amortization_schedule(P, rate1, n).
Phase1InterestOfSchedule ==
    /\ Phase1Schedule.status = "loop"
    /\ Len(Phase1Schedule.rows) = args.m1
    /\ mixed.payment1 = Phase1Schedule.payment
    /\ ret[2] = AddFrom(FZero, Intereses(Phase1Schedule.rows), 1, 1, args.m1)

C18_SimpleReturn ==
    (fn = "ratios" /\ pc # "r_simple")
        => /\ pc # "raised"
           /\ ret.r_simple =
                  IF FLt(FZero, args.aportacion_total)
                  THEN FDiv(args.cashflow_anual, args.aportacion_total)
                  ELSE FZero

\* The ratios of a cash flow other than 0 over a contribution of 0 were
\* computed, with a simple return of 0.
C18_Witness ==
    /\ fn = "ratios"
    /\ pc = "done"
    /\ args.aportacion_total = FZero
    /\ args.cashflow_anual # FZero
    /\ ret.r_simple = FZero

\* C16: wherever the compound-equivalent rate is computed from a simple
\* return r and a horizon n (the headline figure r_comp and comp_equiv in
\* the table per year), an input with 1 + n * r <= 0 yields the
\* not-a-number marker: never an ordinary number, a value of another kind
\* or an exception.
C16_NaNWithoutPositiveBase ==
    (fn = "ratios" /\ pc \in {"table", "done", "raised"})
        => /\ pc # "raised"
           /\ FLe(CompBase(ret.r_simple, args.horizonte_anios), FZero)
                  => ret.r_comp = NaN
           /\ \A n \in 1 .. Len(ret.table) :
                  FLe(CompBase(ret.r_simple, n), FZero) => ret.table[n] = NaN

\* ---- C17
\* The k low bits of the natural x rounded away: to nearest, ties to even.
NRoundShr(x, k) ==
    IF k <= 0 THEN NShl(x, -k)
    ELSE IF NBitAt(x, k - 1) = 1
            /\ (~ NLowZero(x, k - 1) \/ NBitAt(x, k) = 1)
    THEN NAdd(NShr(x, k), <<1>>)
    ELSE NShr(x, k)

\* The amount a >= 0 as eur() prints it with 2 decimals, in cents.
Cents(a) ==
    IF a = FZero THEN 0
    ELSE NToInt(NRoundShr(NMul(ToWide(a).m, NFromInt(100)), -ToWide(a).e))

\* The simulator shows the figures of 100000 euros at 3 % over 20 years.
ScenarioShown ==
    /\ fn = "simulador"
    /\ pc = "shown"
    /\ args.principal = WFromInt(100000)
    /\ args.annual_rate_pct = WFromInt(3)
    /\ args.years = 20

\* C17 as stated: for P = 100000, 3 % a year and n = 240 the first payment
\* is 554.60 and the total of the interest column is 33,103.17, each to the
\* cent.
C17_TotalAsStated ==
    ScenarioShown =>
        /\ args.n = 240
        /\ Cents(ret.monthly_payment) - 55460 \in -1 .. 1
        /\ Cents(ret.total_interest) - 3310317 \in -1 .. 1

\* C17, amended: for P = 100000, 3 % a year and n = 240 the schedule has 240
\* rows, its first payment prints as 554.60 and the total of its interest
\* column prints as 33,103.42.
C17_ScenarioFigures ==
    ScenarioShown =>
        /\ args.n = 240
        /\ Len(sched.rows) = 240
        /\ Cents(ret.monthly_payment) = 55460
        /\ Cents(ret.total_interest) = 3310342

\* The figures of the scenario are on the page.
C17_Witness ==
    /\ ScenarioShown
    /\ Len(sched.rows) = 240
    /\ Cents(ret.total_interest) = 3310342

\* ---- C14
\* A call of prima_orientativa_ing.
PrimaCalled == fn = "prima_orientativa_ing"

\* The call is on an age and a capital of the table.
TabulatedCall ==
    /\ PrimaCalled
    /\ \E a \in DOMAIN PREMIAS_ING : args.edad = WFromInt(a)
    /\ \E i \in DOMAIN CAPITALS_ING : args.capital = WFromInt(CAPITALS_ING[i])

\* The premium the table holds for the age and the capital of the call.
TabulatedPremium ==
    Premium(PREMIAS_ING[FInt(args.edad)][ColumnOf(FInt(args.capital))])

\* Every _lerp done so far divided by something other than zero.
NoDivisionByZero ==
    /\ pc \in {"lerp_v1", "lerp_v", "done"} => ret.v0.status = "ok"
    /\ pc \in {"lerp_v", "done"} => ret.v1.status = "ok"
    /\ pc = "done" => ret.v.status = "ok"

\* C14: on every age and capital of the table, the lowest and the highest
\* included, prima_orientativa_ing returns exactly the premium of the table;
\* no call divides by zero, the calls with a0 == a1 or c0 == c1 included.
C14_TabulatedExact ==
    /\ PrimaCalled => pc # "raised" /\ NoDivisionByZero
    /\ TabulatedCall /\ pc = "done" => ret.v = Ok(TabulatedPremium)

\* A call inside the table with a0 == a1 and c0 == c1 has returned the
\* premium of the table.
C14_Witness ==
    /\ TabulatedCall
    /\ pc = "done"
    /\ ret.a0 = ret.a1
    /\ ret.c0 = ret.c1
    /\ ret.v = Ok(TabulatedPremium)

\* ---- C15
\* The lowest and the highest of a set of whole numbers.
Lowest(S) == CHOOSE b \in S : \A c \in S : b <= c

Highest(S) == CHOOSE b \in S : \A c \in S : b >= c

\* The pair of breakpoints of S for x as described: the two lowest at or
\* below the lowest, the two highest at or above the highest, otherwise the
\* greatest one <= x and the least one >= x.
DescribedPair(S, x) ==
    IF FLe(x, WFromInt(Lowest(S)))
    THEN <<Lowest(S), Lowest(S \ {Lowest(S)})>>
    ELSE IF FLe(WFromInt(Highest(S)), x)
    THEN <<Highest(S \ {Highest(S)}), Highest(S)>>
    ELSE <<Highest({b \in S : FLe(WFromInt(b), x)}),
           Lowest({b \in S : FLe(x, WFromInt(b))})>>

\* The capitals of the columns.
Columns == {CAPITALS_ING[i] : i \in DOMAIN CAPITALS_ING}

\* The pairs chosen so far are the described ones.
PairsAsDescribed ==
    /\ pc # "ages" =>
          <<FInt(ret.a0), FInt(ret.a1)>>
              = DescribedPair(DOMAIN PREMIAS_ING, args.edad)
    /\ pc \notin {"ages", "caps"} =>
          <<FInt(ret.c0), FInt(ret.c1)>> = DescribedPair(Columns, args.capital)

\* y0 + (y1 - y0) * (x - x0) / (x1 - x0): the line through (x0, y0) and
\* (x1, y1), at x.
OnTheLine(x0, x1, y0, y1, x) ==
    FAdd(y0, FDiv(FMul(FSub(y1, y0), FSub(x, x0)), FSub(x1, x0)))

\* The value returned lies on the line of the pair of ages, which outside
\* the table is the line of the boundary segment; one year below the table,
\* on a column, that is the lowest premium less the step to the next one.
LineOfThePair ==
    /\ ret.v.status = "ok"
    /\ ret.a0 # ret.a1 =>
          ret.v.v = OnTheLine(ret.a0, ret.a1, ret.v0.v, ret.v1.v, args.edad)
    /\ ret.c0 # ret.c1 =>
          ret.v0.v = OnTheLine(ret.c0, ret.c1, ret.v_a0c0, ret.v_a0c1,
                               args.capital)
    /\ FInt(args.edad) = Lowest(DOMAIN PREMIAS_ING) - 1 /\ ret.c0 = ret.c1 =>
          ret.v.v = FSub(ret.v_a0c0, FSub(ret.v_a1c0, ret.v_a0c0))

\* C15: the pair of ages and the pair of capitals are chosen as described,
\* each on its own; the four corners are cells of the table, so no call
\* raises; the value returned is on the line of the pair, the boundary
\* segment's outside the table.
C15_PairsAndNoRaise ==
    PrimaCalled =>
        /\ pc # "raised"
        /\ PairsAsDescribed
        /\ pc = "done" => LineOfThePair

\* A call below the lowest age and above the highest capital has returned a
\* value taken from the two lowest ages and the two highest capitals.
C15_Witness ==
    /\ PrimaCalled
    /\ pc = "done"
    /\ FLt(args.edad, ages[1])
    /\ FLt(caps[Len(caps)], args.capital)
    /\ <<ret.a0, ret.a1>> = <<ages[1], ages[2]>>
    /\ <<ret.c0, ret.c1>> = <<caps[Len(caps) - 1], caps[Len(caps)]>>
    /\ ret.v.status = "ok"
    /\ FLt(ret.v.v, ret.v0.v) \/ FLt(ret.v0.v, ret.v.v)

\* ---- C21
\* The phase-2 loop of a call of mixed_total_interest with
\* 0 <= m1 < n has made its n - m1 payments.
Phase2Paid ==
    /\ mixed.status \in {"phase2", "returned"}
    /\ mixed.n2 > 0
    /\ mixed.j = mixed.n2

\* The running balance of phase 2 is at most a millionth of the balance
\* carried over from phase 1, in size.
ResidualIsRounding ==
    FLe(FAbs(mixed.bal), FMul(FAbs(mixed.balance), WRatio(1, 1000000)))

\* C21 as stated: with 0 <= m1 < n, after the n - m1 payments of phase 2
\* the running balance of phase 2 is exactly zero.
C21_ResidualExactlyZero == Phase2Paid => mixed.bal = FZero

\* C21, amended: with 0 <= m1 < n, after the n - m1 payments of phase 2 the
\* running balance of phase 2 is zero up to rounding, within a millionth of
\* the balance carried over, and the call returns that carried balance as
\* its fourth result, untouched by phase 2.
C21_ResidualWithinRounding ==
    Phase2Paid =>
        /\ ResidualIsRounding
        /\ mixed.status = "returned" => mixed.ret[4] = mixed.balance

\* A call has returned after a phase 2 that left a residue other than zero.
C21_Witness ==
    /\ Phase2Paid
    /\ mixed.status = "returned"
    /\ mixed.bal # FZero
    /\ ResidualIsRounding
    /\ args.m1 > 0

\* ---- C22
\* f of line 256 at the rate r2m, for the call under way and its target.
TrueF(fr, r2m) ==
    SolveF(args.P, args.n, args.r1_m, args.m1, fr.target, r2m).v

\* The bracket [lo, hi] of frame fr starts at 0 or above and is in order.
BracketInOrder(fr) == FLe(FZero, fr.lo) /\ FLe(fr.lo, fr.hi)

\* The true values of f at the two ends of the bracket of fr do not have
\* the same sign.
SignChangeIn(fr) ==
    FLe(FMul(TrueF(fr, fr.lo), TrueF(fr, fr.hi)), FZero)

\* C22 as stated: after every pass of the bisection, the one that stops it
\* early included, 0 <= lo <= hi and the true values of f at lo and hi
\* satisfy f(lo) * f(hi) <= 0.
C22_SignChangeAlways ==
    (fn \in {"comparador", "solve_r2_for_equal_interest"}
        /\ pc \in {"bisect", "break"})
            => BracketInOrder(solve) /\ SignChangeIn(solve)

\* The bracket of the next state lies inside the one of this state, and is
\* no wider.
BracketNested ==
    /\ BracketInOrder(solve')
    /\ FLe(solve.lo, solve'.lo)
    /\ FLe(solve'.hi, solve.hi)
    /\ FLe(FSub(solve'.hi, solve'.lo), FSub(solve.hi, solve.lo))

\* C22, amended: the bisection starts from a bracket [0, hi] with
\* f(0) * f(hi) <= 0; every pass leaves 0 <= lo <= hi inside the bracket
\* before it, no wider; after a pass that does not stop the loop the true
\* values satisfy f(lo) * f(hi) <= 0 and f_lo is f(lo); the pass that stops
\* the loop leaves lo = hi = mid with abs(f(mid)) < 1e-8, where nothing
\* changes sign unless f(mid) is 0; the rate returned is in the last bracket.
C22_BracketKept ==
    [][/\ (pc = "expand" /\ pc' = "bisect")
              => /\ solve'.lo = FZero
                 /\ BracketInOrder(solve')
                 /\ SignChangeIn(solve')
       /\ (pc = "bisect" /\ pc' \in {"bisect", "break"})
              => /\ BracketNested
                 /\ pc' = "bisect"
                       => /\ SignChangeIn(solve')
                          /\ solve'.f_lo = TrueF(solve', solve'.lo)
                 /\ pc' = "break"
                       => /\ solve'.lo = solve'.hi
                          /\ FLt(FAbs(TrueF(solve', solve'.lo)),
                                 ToleranceIn(solve.hi))
       /\ (pc \in {"bisect", "break"} /\ pc' = "done")
              => /\ ~ ret'[1].none
                 /\ FLe(FZero, ret'[1].v)
                 /\ FLe(solve.lo, ret'[1].v)
                 /\ FLe(ret'[1].v, solve.hi)]_vars

\* The bisection has stopped early on a rate above 0 where f is not 0: the
\* bracket is that one rate, and a rate is returned from it.
C22_Witness ==
    /\ fn = "comparador"
    /\ pc = "done"
    /\ solve.status = "returned"
    /\ solve.it > 1
    /\ solve.it < MaxBisections
    /\ solve.lo = solve.hi
    /\ solve.ret[1] = Some(solve.lo)
    /\ FLt(FZero, solve.lo)
    /\ TrueF(solve, solve.lo) # FZero

\* ---- C23
\* The total of the column "Intereses" of amortization_schedule(P, r2_m, n)
\* for the loan of the call under way.
ScheduleInterestAtRate2 ==
    SeriesSum(Intereses(amortization_schedule(args.P, args.r2_m, args.n).rows))

\* C23: with no phase 1 (m1 = 0, P > 0, n > 0), whatever r1_m is,
\* mixed_total_interest returns a phase-1 interest of 0 and P as the balance
\* after phase 1, and its total interest is the sum of the interest column
\* of amortization_schedule(P, r2_m, n).
C23_NoPhase1IsSchedule ==
    (MixedEnded /\ LoanGiven /\ args.m1 = 0)
        => /\ pc = "done"
           /\ ret[2] = FZero
           /\ ret[4] = args.P
           /\ ret[1] = ScheduleInterestAtRate2

\* ---- C24
\* The age and the capital of the call are inside the table, its edges
\* included.
InsideTable ==
    /\ FLe(ages[1], args.edad)
    /\ FLe(args.edad, ages[Len(ages)])
    /\ FLe(caps[1], args.capital)
    /\ FLe(args.capital, caps[Len(caps)])

\* The four corner premiums the call has read.
Corners == {ret.v_a0c0, ret.v_a0c1, ret.v_a1c0, ret.v_a1c1}

\* The value returned is a number no smaller than the smallest corner and no
\* larger than the largest one.
WithinCorners ==
    /\ ret.v.status = "ok"
    /\ \E q \in Corners : FLe(q, ret.v.v)
    /\ \E q \in Corners : FLe(ret.v.v, q)

\* C24: for every age and capital inside the table, the value returned by
\* prima_orientativa_ing lies between the smallest and the largest of the
\* four corner premiums it read; so a value outside the range of its
\* corners comes only from a call outside the table.
C24_NoOvershootInside ==
    (PrimaCalled /\ pc = "done" /\ InsideTable) => WithinCorners

\* A call strictly between two rows and two columns has returned a value
\* strictly between its smallest and its largest corner.
C24_Witness ==
    /\ PrimaCalled
    /\ pc = "done"
    /\ InsideTable
    /\ ret.a0 # ret.a1
    /\ ret.c0 # ret.c1
    /\ WithinCorners
    /\ \E q \in Corners : FLt(q, ret.v.v)
    /\ \E q \in Corners : FLt(ret.v.v, q)

====
